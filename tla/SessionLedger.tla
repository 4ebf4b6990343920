---------------------------- MODULE SessionLedger ----------------------------
(***************************************************************************)
(* What Orchestrator, Engine, Ledger and contract together promise of a    *)
(* session: it is reserved once, by one wallet; nobody pays for it before  *)
(* its bandwidth is given back, nothing is stored before it is paid, and   *)
(* its user is not told of an end that is not in the books.  There are no  *)
(* cookies, requests, failures or crashes here.  SettlementRefinement      *)
(* shows that the handlers keep the promise through all of them.           *)
(***************************************************************************)
EXTENDS Naturals

CONSTANTS
    Session,
    Wallet,
    None

VARIABLES
    owner,      \* owner[s]: the wallet that has reserved s, or None
    released,   \* released[s]: how often its bandwidth was given back
    charged,    \* charged[s][w]: how often w has paid for it
    rows,       \* rows[s]: its rows in the history
    told        \* sessions whose user is being told that they have ended

vars == <<owner, released, charged, rows, told>>

Init ==
    /\ owner = [s \in Session |-> None]
    /\ released = [s \in Session |-> 0]
    /\ charged = [s \in Session |-> [w \in Wallet |-> 0]]
    /\ rows = [s \in Session |-> 0]
    /\ told = {}

Reserve(s, w) ==
    /\ owner[s] = None
    /\ owner' = [owner EXCEPT ![s] = w]
    /\ UNCHANGED <<released, charged, rows, told>>

Release(s) ==
    /\ owner[s] # None
    /\ released' = [released EXCEPT ![s] = @ + 1]
    /\ UNCHANGED <<owner, charged, rows, told>>

\* A release is paid for once at most, and by the owner.
Pay(s) ==
    /\ owner[s] # None /\ charged[s][owner[s]] < released[s]
    /\ charged' = [charged EXCEPT ![s][owner[s]] = @ + 1]
    /\ UNCHANGED <<owner, released, rows, told>>

\* A transfer makes one row at most.
Store(s) ==
    /\ owner[s] # None /\ rows[s] < charged[s][owner[s]]
    /\ rows' = [rows EXCEPT ![s] = @ + 1]
    /\ UNCHANGED <<owner, released, charged, told>>

Tell(s) ==
    /\ rows[s] > 0
    /\ told' = told \cup {s}
    /\ UNCHANGED <<owner, released, charged, rows>>

\* Answers arrive or are lost.
Answer ==
    /\ told' \subseteq told
    /\ UNCHANGED <<owner, released, charged, rows>>

Next ==
    \/ \E s \in Session : \/ \E w \in Wallet : Reserve(s, w)
                          \/ Release(s) \/ Pay(s) \/ Store(s) \/ Tell(s)
    \/ Answer

Spec == Init /\ [][Next]_vars

=============================================================================
