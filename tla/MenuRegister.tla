---------------------------- MODULE MenuRegister ----------------------------
(***************************************************************************)
(* What the menu cache of one restaurant promises: it behaves like the     *)
(* backend's menu read with a bounded delay.  A reader may be given a menu *)
(* that was superseded, but not longer than Bound ticks ago; the mock menu *)
(* only after a fetch of its own that failed.  A menu that was pinned is   *)
(* exempt: it may be given for ever.  MenuCache implements this module.    *)
(***************************************************************************)
EXTENDS Naturals

CONSTANTS
    Readers,    \* calls that read the menu
    Bound,      \* how long a superseded menu may still be given
    Mock,       \* the mock menu, older than every menu of the backend
    NoAnswer

VARIABLES
    menu,       \* the number of the backend's current menu, from Mock + 1 on
    superseded, \* ticks since each earlier menu was replaced, up to Bound + 1
    failures,   \* fetches that failed
    pinned,     \* menus without a bound
    answer      \* what each reader was given last

vars == <<menu, superseded, failures, pinned, answer>>

Init ==
    /\ menu = Mock + 1
    /\ superseded = [v \in {} |-> 0]
    /\ failures = 0
    /\ pinned = {}
    /\ answer = [r \in Readers |-> NoAnswer]

Older(age) == IF age <= Bound THEN age + 1 ELSE age

\* The backend's menu changes.
Publish ==
    /\ menu' = menu + 1
    /\ superseded' = [v \in DOMAIN superseded \cup {menu} |->
                         IF v = menu THEN 0 ELSE superseded[v]]
    /\ UNCHANGED <<failures, pinned, answer>>

Tick ==
    /\ superseded' = [v \in DOMAIN superseded |-> Older(superseded[v])]
    /\ UNCHANGED <<menu, failures, pinned, answer>>

Give(r, v) == answer' = [answer EXCEPT ![r] = v]

Ask(r) ==
    /\ Give(r, NoAnswer)
    /\ UNCHANGED <<menu, superseded, failures, pinned>>

Readable == {menu} \cup {v \in DOMAIN superseded : superseded[v] <= Bound} \cup pinned

Read(r) ==
    /\ \E v \in Readable : Give(r, v)
    /\ UNCHANGED <<menu, superseded, failures, pinned>>

\* A fetch fails, and its reader is given the mock menu or nothing yet.
Fail(r) ==
    /\ failures' = failures + 1
    /\ Give(r, Mock) \/ UNCHANGED answer
    /\ UNCHANGED <<menu, superseded, pinned>>

\* A menu that once could be read is put where it may stay.
Pin ==
    /\ \E v \in DOMAIN superseded \cup {menu} \cup (IF failures = 0 THEN {} ELSE {Mock}) :
          pinned' = pinned \cup {v}
    /\ UNCHANGED <<menu, superseded, failures, answer>>

Next == Publish \/ Tick \/ Pin \/ \E r \in Readers : Ask(r) \/ Read(r) \/ Fail(r)

Spec == Init /\ [][Next]_vars
=============================================================================
