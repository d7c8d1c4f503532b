-------------------------------- MODULE Toast --------------------------------
(***************************************************************************)
(* The notifications of the dashboard (use-toast.ts): a list outside       *)
(* React, changed by the reducer's actions.  A toast is closed by the user *)
(* or by its own timer, both through onOpenChange, and removed by another  *)
(* timer TOAST_REMOVE_DELAY later.                                         *)
(***************************************************************************)
EXTENDS Naturals, Sequences, SequencesExt

CONSTANTS
    ToastLimit,   \* TOAST_LIMIT
    IdLimit       \* bound: the ids genId hands out, Number.MAX_SAFE_INTEGER in the code

ASSUME ToastAssumption == ToastLimit \in Nat \ {0} /\ IdLimit \in Nat

VARIABLES
    toasts,       \* memoryState.toasts, newest first: [id, open]
    removals,     \* the keys of toastTimeouts, and the timers set
    count         \* count

toastVars == <<toasts, removals, count>>

ToastTypeOK ==
    /\ toasts \in BoundedSeq([id : 1 .. IdLimit, open : BOOLEAN], ToastLimit)
    /\ removals \subseteq 1 .. IdLimit
    /\ count \in 0 .. IdLimit

Toasts == ToSet(toasts)

\* toast(): ADD_TOAST.
AddToast ==
    /\ count < IdLimit
    /\ count' = count + 1
    /\ LET longer == <<[id |-> count + 1, open |-> TRUE]>> \o toasts
       IN toasts' = SubSeq(longer, 1, IF Len(longer) > ToastLimit THEN ToastLimit ELSE Len(longer))
    /\ UNCHANGED removals

\* addToRemoveQueue: a toast has one timer.
AddToRemoveQueue(id) == removals' = removals \cup {id}

\* onOpenChange(false) of a toast on the screen: DISMISS_TOAST.
DismissToast(t) ==
    /\ t.open
    /\ AddToRemoveQueue(t.id)
    /\ toasts' = [i \in DOMAIN toasts |->
                    IF toasts[i].id = t.id THEN [toasts[i] EXCEPT !.open = FALSE] ELSE toasts[i]]
    /\ UNCHANGED count

\* The filter of REMOVE_TOAST: the toasts with another id.
Without(id, list) == FoldLeft(LAMBDA kept, t : IF t.id = id THEN kept ELSE Append(kept, t), <<>>, list)

\* The timer: REMOVE_TOAST.
RemoveToast(id) ==
    /\ id \in removals
    /\ removals' = removals \ {id}
    /\ toasts' = Without(id, toasts)
    /\ UNCHANGED count

ToastInit == toasts = <<>> /\ removals = {} /\ count = 0

ToastNext ==
    \/ AddToast
    \/ \E t \in Toasts : DismissToast(t)
    \/ \E id \in removals : RemoveToast(id)

\* Every toast on the screen closes in the end, and timers fire.
ToastFairness ==
    WF_toastVars((\E t \in Toasts : DismissToast(t)) \/ \E id \in removals : RemoveToast(id))

------------------------------------------------------------------------------
(* Properties.                                                             *)

\* A toast that is open leaves the list only when newer ones take its place:
\* no timer set for another takes it away.
OpenToastStays ==
    [][\A t \in Toasts : t.open /\ (\A u \in Toasts' : u.id # t.id) => count' = count + 1]_toastVars

\* The screen gets empty again.
ToastsGoAway == [](count = IdLimit => <>(toasts = <<>>))
==============================================================================
