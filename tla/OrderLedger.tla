----------------------------- MODULE OrderLedger -----------------------------
(***************************************************************************)
(* What the OrderManager promises the rest of the server, without files,   *)
(* indexes, versions or events: an order is placed once per key, takes     *)
(* fills up to its quantity, is closed when it is full or when it is       *)
(* cancelled or rejected, and then never changes.  A restart is invisible. *)
(***************************************************************************)
EXTENDS Naturals

CONSTANTS OrderId, Key, Quantity

VARIABLES placed,   \* the orders on the ledger
          terms,    \* what each was placed with: two keys and a quantity
          taken,    \* lots filled
          closed    \* the orders nothing more can happen to

ledgerVars == <<placed, terms, taken, closed>>

Terms == [client : Key, key : Key, quantity : Quantity]

LedgerInit ==
    /\ placed = {}
    /\ terms = [o \in OrderId |-> {}]
    /\ taken = [o \in OrderId |-> 0]
    /\ closed = {}

Place(o, t) ==
    /\ o \notin placed
    /\ \A p \in placed : \A u \in terms[p] :
           u.client # t.client /\ u.key # t.key
    /\ placed' = placed \cup {o}
    /\ terms' = [terms EXCEPT ![o] = {t}]
    /\ UNCHANGED <<taken, closed>>

Fill(o, n) ==
    /\ o \in placed \ closed
    /\ \E t \in terms[o] :
         /\ taken[o] + n <= t.quantity
         /\ closed' = IF taken[o] + n = t.quantity THEN closed \cup {o}
                                                   ELSE closed
    /\ taken' = [taken EXCEPT ![o] = @ + n]
    /\ UNCHANGED <<placed, terms>>

Close(o) ==
    /\ o \in placed \ closed
    /\ closed' = closed \cup {o}
    /\ UNCHANGED <<placed, terms, taken>>

Wipe ==
    /\ placed' = {}
    /\ terms' = [o \in OrderId |-> {}]
    /\ taken' = [o \in OrderId |-> 0]
    /\ closed' = {}

LedgerNext ==
    \/ \E o \in OrderId :
         \/ \E t \in Terms : Place(o, t)
         \/ \E n \in Quantity : Fill(o, n)
         \/ Close(o)
    \/ Wipe

LedgerSpec == LedgerInit /\ [][LedgerNext]_ledgerVars
=============================================================================
