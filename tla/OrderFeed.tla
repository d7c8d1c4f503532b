------------------------------- MODULE OrderFeed -------------------------------
(***************************************************************************)
(* What the order feed promises about a screen, without streams, lookups,  *)
(* sockets or reconnections: a limited number of rows, one for an order,   *)
(* each with a status that the engine has published, and a row is replaced *)
(* by a newer status only.  An order loses the last promise for good when  *)
(* two of its statuses have become mixed up on their way.  Nothing says    *)
(* that a status is shown at all.                                          *)
(***************************************************************************)
EXTENDS Naturals, FiniteSets

CONSTANTS
    Orders,
    MaxVersion,  \* bound: statuses of an order
    Screens,
    Rows         \* rows a screen has

VARIABLES
    version,     \* [Orders -> 0 .. MaxVersion]: statuses published
    mixed,       \* orders whose statuses may be shown in any order
    screen       \* [Screens -> SUBSET Statuses]

feedVars == <<version, mixed, screen>>

Statuses == [order : Orders, version : 1 .. MaxVersion]

FeedInit ==
    /\ version = [o \in Orders |-> 0]
    /\ mixed = {}
    /\ screen = [s \in Screens |-> {}]

Publish(o) ==
    /\ version[o] < MaxVersion
    /\ version' = [version EXCEPT ![o] = @ + 1]
    /\ UNCHANGED <<mixed, screen>>

\* It takes two statuses to mix them up.
MixUp(o) ==
    /\ version[o] >= 2
    /\ mixed' = mixed \cup {o}
    /\ UNCHANGED <<version, screen>>

\* A status in place of the row of its order, or in a row of its own, for which a full
\* screen gives up another.
Show(s, u) ==
    LET others == {t \in screen[s] : t.order # u.order}
    IN /\ u.version <= version[u.order]
       /\ u.order \notin mixed => \A t \in screen[s] \ others : t.version < u.version
       /\ \/ /\ Cardinality(others) < Rows
             /\ screen' = [screen EXCEPT ![s] = others \cup {u}]
          \/ /\ Cardinality(others) = Rows
             /\ \E t \in others : screen' = [screen EXCEPT ![s] = (others \ {t}) \cup {u}]
       /\ UNCHANGED <<version, mixed>>

FeedNext ==
    \/ \E o \in Orders : Publish(o) \/ MixUp(o)
    \/ \E s \in Screens, u \in Statuses : Show(s, u)

FeedSpec == FeedInit /\ [][FeedNext]_feedVars

\* A screen has no more rows than there is room for, one for an order, and each says what
\* the engine has published.
ScreensAreLists ==
    \A s \in Screens :
        /\ IsFiniteSet(screen[s]) /\ Cardinality(screen[s]) <= Rows
        /\ \A t, u \in screen[s] : t.order = u.order => t = u
        /\ \A u \in screen[s] : u.version <= version[u.order]
=============================================================================
