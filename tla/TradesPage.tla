------------------------------ MODULE TradesPage ------------------------------
(***************************************************************************)
(* A manual order from the form of the page Trades (Trades.tsx) to the     *)
(* message under it, through customFetch (custom-fetch.ts), which all      *)
(* generated hooks use.  Between the two are the API and whatever proxies  *)
(* the path goes through: an answer may be the API's or theirs, and may be *)
(* lost or break off.  Base URL and token are never set by the dashboard.  *)
(***************************************************************************)
EXTENDS Naturals

CONSTANTS
    Orders,      \* what the form may say
    NoOrder,     \* the form as it is after a reset
    MaxClicks    \* bound: clicks on Submit Order

ASSUME TradesAssumption == MaxClicks \in Nat

VARIABLES
    form,        \* form
    page,        \* "idle", or isPending: "sent" and "answered"
    response,    \* the answer that is being read
    formMsg,     \* formMsg: "none", "submitted", "reason" (an error that says why) or "error"
    clicks,
    request,     \* the body of the last request
    accepted     \* history variable: the requests, with the number of their click, of which an
                 \* order was accepted before the answer: one at least (OrderSubmission)

tradesVars == <<form, page, response, formMsg, clicks, request, accepted>>

------------------------------------------------------------------------------
(* customFetch.                                                            *)

\* A body is blank, one of the API's objects ("success" and "refusal" for the
\* two values of `success`, "error" with a field of this name), "broken" where it
\* starts like JSON, or "prose".
Objects == {"success", "refusal", "error"}
ReplyOf(ok, empty, media, body) == [ok |-> ok, empty |-> empty, media |-> media, body |-> body]

\* What the API answers: a success only to an order that was accepted, but its
\* fallback may also refuse an order the engine has; and what comes from proxies
\* and cut connections.
ApiAnswers(isAccepted) ==
    {ReplyOf(TRUE, FALSE, "json", "refusal"), ReplyOf(FALSE, FALSE, "json", "error")}
        \cup (IF isAccepted THEN {ReplyOf(TRUE, FALSE, "json", "success")} ELSE {})

OtherAnswers ==
    {ReplyOf(ok, TRUE, "none", "blank") : ok \in BOOLEAN}
        \cup {ReplyOf(ok, FALSE, media, body) : ok \in BOOLEAN,
              media \in {"json", "text", "none", "other"}, body \in {"blank", "broken", "prose"}}

HasNoBody(r) == r.empty

InferResponseType(r) ==
    CASE r.media = "json" -> "json"
      [] r.media \in {"text", "none"} -> "text"
      [] OTHER -> "blob"

LooksLikeJson(r) == r.body \in Objects \cup {"broken"}

\* What a promise of customFetch settles with.
Value(data) == [thrown |-> "no", data |-> data]
Thrown(error, data) == [thrown |-> error, data |-> data]

\* parseSuccessBody, parseJsonBody.
ParseSuccessBody(r) ==
    IF HasNoBody(r) THEN Value("null")
    ELSE CASE InferResponseType(r) = "json" ->
                IF r.body = "blank" THEN Value("null")
                ELSE IF r.body \in Objects THEN Value(r.body)
                ELSE Thrown("ResponseParseError", "null")
           [] InferResponseType(r) = "text" -> Value(IF r.body = "blank" THEN "null" ELSE "text")
           [] OTHER -> Value("blob")

\* parseErrorBody: what cannot be parsed stays text.
ParseErrorBody(r) ==
    IF HasNoBody(r) THEN "null"
    ELSE IF r.media = "other" THEN "blob"
    ELSE IF r.body = "blank" THEN "null"
    ELSE IF (r.media = "json" \/ LooksLikeJson(r)) /\ r.body \in Objects THEN r.body
    ELSE "text"

CustomFetch(r) ==
    IF r.ok THEN ParseSuccessBody(r) ELSE Thrown("ApiError", ParseErrorBody(r))

\* buildErrorMessage: text, or a field that names the error.
SaysWhy(data) == data \in {"text", "error"}

------------------------------------------------------------------------------
(* The page.                                                               *)

TradesTypeOK ==
    /\ form \in Orders \cup {NoOrder}
    /\ page \in {"idle", "sent", "answered"}
    /\ response \in OtherAnswers \cup ApiAnswers(TRUE)
    /\ formMsg \in {"none", "submitted", "reason", "error"}
    /\ clicks \in 0 .. MaxClicks
    /\ request \in Orders \cup {NoOrder}
    /\ accepted \subseteq (1 .. MaxClicks) \X Orders

\* The inputs stay editable while an order is on its way.
TypeOrder(o) ==
    /\ form' = o
    /\ UNCHANGED <<page, response, formMsg, clicks, request, accepted>>

\* handleSubmit up to its await: the fields are required, and the button, with
\* it Enter, is disabled while isPending.
Submit ==
    /\ page = "idle"
    /\ form # NoOrder
    /\ clicks < MaxClicks
    /\ clicks' = clicks + 1
    /\ request' = form
    /\ page' = "sent"
    /\ formMsg' = "none"
    /\ UNCHANGED <<form, response, accepted>>

\* The catch branch of handleSubmit.
ShowError(message) ==
    /\ page' = "idle"
    /\ formMsg' = message
    /\ UNCHANGED <<form, response, clicks, request>>

\* The order was accepted or not; the answer is on its way, or fetch rejects.
Respond(isAccepted, r) ==
    /\ page = "sent"
    /\ page' = "answered"
    /\ response' = r
    /\ accepted' = IF isAccepted THEN accepted \cup {<<clicks, request>>} ELSE accepted
    /\ UNCHANGED <<form, formMsg, clicks, request>>

FetchRejects(isAccepted) ==
    /\ page = "sent"
    /\ accepted' = IF isAccepted THEN accepted \cup {<<clicks, request>>} ELSE accepted
    /\ ShowError("error")

\* The body was read: handleSubmit after its await.  `result.success` of null
\* throws, and of text or a blob is undefined.
BodyRead ==
    LET result == CustomFetch(response)
    IN /\ page = "answered"
       /\ \/ /\ result = Value("success")
             /\ page' = "idle"
             /\ formMsg' = "submitted"
             /\ form' = NoOrder
             /\ UNCHANGED <<response, clicks, request>>
          \/ /\ result = Value("refusal")
             /\ ShowError("reason")
          \/ /\ result.thrown = "no" /\ result.data \notin {"success", "refusal"}
             /\ ShowError("error")
          \/ /\ result.thrown # "no"
             /\ ShowError(IF result.thrown = "ApiError" /\ SaysWhy(result.data) THEN "reason" ELSE "error")
       /\ UNCHANGED accepted

\* The connection breaks while the body is read.
BodyBreaks ==
    /\ page = "answered" /\ ~HasNoBody(response)
    /\ ShowError("error")
    /\ UNCHANGED accepted

TradesInit ==
    /\ form = NoOrder
    /\ page = "idle"
    /\ response = ReplyOf(TRUE, TRUE, "none", "blank")
    /\ formMsg = "none"
    /\ clicks = 0
    /\ request = NoOrder
    /\ accepted = {}

Settles ==
    \/ \E isAccepted \in BOOLEAN :
          \/ \E r \in ApiAnswers(isAccepted) \cup OtherAnswers : Respond(isAccepted, r)
          \/ FetchRejects(isAccepted)
    \/ BodyRead
    \/ BodyBreaks

TradesNext == (\E o \in Orders : TypeOrder(o)) \/ Submit \/ Settles

------------------------------------------------------------------------------
(* Properties.                                                             *)

\* "Order submitted" is said of the order the last click sent, and only if it was
\* accepted; a refusal by the API is never taken for it, whatever else answers.
SubmittedIsAccepted == formMsg = "submitted" => <<clicks, request>> \in accepted

\* No message is left of an earlier order while one is on its way, though the form
\* may say another by then.
NoMessageMeanwhile == page # "idle" => formMsg = "none"

\* What the operator reads about his order is so.
MessageIsTrue == SubmittedIsAccepted /\ NoMessageMeanwhile
==============================================================================
