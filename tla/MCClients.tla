----------------------------- MODULE MCClients -----------------------------
\* What stands between the operator or the strategies and the engine, and keeps
\* state of its own: the parts of the dashboard, the submission of orders, and the
\* preview of mock-ups, for TLC.  They share no state, so a behaviour takes steps of one of them only.
EXTENDS AdminKey, OfflineBanner, SettingsPage, Toast, OrderSubmission, MockupPreview,
        TradesPage

CONSTANTS url, jito, tip, text, probe1

MCForms    == {{url, jito}, {tip}}
MCEnv      == [f \in Fields |-> IF f = url THEN text ELSE IF f = jito THEN Empty ELSE Unset]
MCFallback == [f \in Fields |-> IF f = tip THEN text ELSE Empty]

VARIABLE part   \* "key", "banner", "settings", "toast", "orders", "preview" or "trades"

vars == <<part, keyVars, bannerVars, settingsVars, toastVars, subVars, previewVars,
          tradesVars>>

\* Parts that do not move start in one state; the settings start with any rows
\* in which the second field is unset.
Init ==
    /\ part \in {"key", "banner", "settings", "toast", "orders", "preview", "trades"}
    /\ KeyInit /\ BannerInit /\ SettingsInit /\ ToastInit /\ SubInit /\ PreviewInit
    /\ TradesInit
    /\ part # "banner" => wsRef = probe1
    /\ bot_config[jito] = Unset
    /\ part # "preview" => files = {} /\ generated = {}
    /\ part # "settings" => bot_config = [f \in Fields |-> Unset]

Next ==
    \/ /\ part = "key" /\ KeyNext
       /\ UNCHANGED <<part, bannerVars, settingsVars, toastVars, subVars, previewVars, tradesVars>>
    \/ /\ part = "banner" /\ BannerNext
       /\ UNCHANGED <<part, keyVars, settingsVars, toastVars, subVars, previewVars, tradesVars>>
    \/ /\ part = "settings" /\ SettingsNext
       /\ UNCHANGED <<part, keyVars, bannerVars, toastVars, subVars, previewVars, tradesVars>>
    \/ /\ part = "toast" /\ ToastNext
       /\ UNCHANGED <<part, keyVars, bannerVars, settingsVars, subVars, previewVars, tradesVars>>
    \/ /\ part = "orders" /\ SubNext
       /\ UNCHANGED <<part, keyVars, bannerVars, settingsVars, toastVars, previewVars, tradesVars>>
    \/ /\ part = "preview" /\ PreviewNext
       /\ UNCHANGED <<part, keyVars, bannerVars, settingsVars, toastVars, subVars, tradesVars>>
    \/ /\ part = "trades" /\ TradesNext
       /\ UNCHANGED <<part, keyVars, bannerVars, settingsVars, toastVars, subVars, previewVars>>

\* The fairness of the part that moves.
Spec ==
    /\ Init /\ [][Next]_vars
    /\ \/ part = "banner" /\ BannerFairness
       \/ part = "toast" /\ ToastFairness
       \/ part = "preview" /\ PreviewFairness
       \/ part \in {"key", "settings", "orders", "trades"}

------------------------------------------------------------------------------
\* The type invariants of all parts: what each variable of the code may hold.
ClientsTypeOK ==
    /\ KeyTypeOK /\ BannerTypeOK /\ SettingsTypeOK /\ ToastTypeOK /\ SubTypeOK /\ PreviewTypeOK
    /\ TradesTypeOK

\* What is shown is so: the banner of the connection (OfflineBanner), the fields of
\* the settings page (SettingsPage), the list of mock-ups (MockupPreview), and what
\* became of a manual order (TradesPage).
ScreensAreTrue == BannerKnows /\ PageIsTrue /\ PreviewAgrees /\ MessageIsTrue

\* What no step may do: send a key that has expired, or bring one back though no request
\* was superseded (AdminKey), report a save of a field that is not stored and that
\* nobody else has written (SettingsPage), take away the toast of another (Toast).
ClientSteps == AutoSendsFreshKey /\ NothingRevives /\ SavedIsStored /\ OpenToastStays

\* What the parts settle to: the banner hides once the server is back, or comes back
\* for ever when Retry has closed a socket that was connecting; toasts go away, and a
\* preview page shows what the server lists.
ClientsSettle ==
    /\ part = "banner" => BannerHides
    /\ part = "toast" => ToastsGoAway
    /\ part = "preview" => PageFollows
==============================================================================
