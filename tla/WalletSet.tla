------------------------------ MODULE WalletSet ------------------------------
(***************************************************************************)
(* What the metadata of a card promises: a set of wallet IDs that can be   *)
(* stored on the card and loaded again.  A set that another writer left on *)
(* the card out of order is not exact: IDs can be added to it, but not     *)
(* surely be removed.                                                      *)
(***************************************************************************)
EXTENDS Naturals

CONSTANTS
    Ids,
    Limit           \* IDs below it fit on the card

VARIABLES
    wallets,        \* the set in memory
    exact,
    stored,         \* the set on the card
    storedExact

sets == <<wallets, exact, stored, storedExact>>

Init ==
    /\ wallets = {}
    /\ exact = TRUE
    /\ stored \in SUBSET Nat
    /\ storedExact \in BOOLEAN

\* What is exact stays so; what is not may become it.
KeepsExact == exact' \in BOOLEAN /\ (exact => exact')

Add(id) ==
    /\ wallets' = wallets \cup {id}
    /\ KeepsExact
    /\ UNCHANGED <<stored, storedExact>>

Remove(id) ==
    /\ \/ wallets' = wallets \ {id}
       \/ ~exact /\ wallets' = wallets
    /\ KeepsExact
    /\ UNCHANGED <<stored, storedExact>>

Fits == \A id \in wallets : id < Limit

\* Of a set that does not fit anything may be on the card afterwards.
Store ==
    /\ IF Fits THEN stored' = wallets /\ storedExact' = exact
       ELSE stored' \in SUBSET Nat /\ storedExact' \in BOOLEAN
    /\ UNCHANGED <<wallets, exact>>

Load ==
    /\ wallets' = stored
    /\ exact' = storedExact
    /\ UNCHANGED <<stored, storedExact>>

Next ==
    \/ \E id \in Ids : Add(id) \/ Remove(id)
    \/ Store
    \/ Load

Spec == Init /\ [][Next]_sets

=============================================================================
