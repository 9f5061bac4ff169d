------------------------------- MODULE Ledger -------------------------------
(***************************************************************************)
(* What a student's wallet promises: an account whose changes are atomic.  *)
(* Credits are added and removed, never below zero; a purchase takes one   *)
(* credit that is there into escrow and turns it into a sale; a purchase   *)
(* that fails after that forfeits the credit.  The promise to a student    *)
(* ends when the student becomes loose; one student's account never        *)
(* depends on another's.                                                   *)
(***************************************************************************)
EXTENDS Integers

CONSTANTS Students, Accumulators

VARIABLES balance, escrow, sold, loose

accounts == <<balance, escrow, sold, loose>>

Init ==
  /\ balance = [s \in Students |-> 0]
  /\ escrow = [s \in Students |-> 0]
  /\ sold = [s \in Students |-> 0]
  /\ loose = {}

Amounts(b, e, d, s) == balance'[s] = b /\ escrow'[s] = e /\ sold'[s] = d

Same(s) == Amounts(balance[s], escrow[s], sold[s], s)

\* An admin adds to a wallet or takes from it; a dispute awards one credit.
Adjust(s, n) ==
  Amounts(IF balance[s] + n > 0 THEN balance[s] + n ELSE 0, escrow[s], sold[s], s)

Reserve(s) == balance[s] > 0 /\ Amounts(balance[s] - 1, escrow[s] + 1, sold[s], s)

Settle(s) == escrow[s] > 0 /\ Amounts(balance[s], escrow[s] - 1, sold[s] + 1, s)

\* Some purchases of s fail between the debit and the sale, or none.
Forfeit(s) == escrow'[s] <= escrow[s] /\ Amounts(balance[s], escrow'[s], sold[s], s)

Change(s) == Reserve(s) \/ Settle(s) \/ \E n \in Accumulators \cup {1} : Adjust(s, n)

\* One account changes, or purchases fail, in a crash those of all students.
Next ==
  /\ {balance', escrow', sold'} \subseteq [Students -> Nat]
  /\ \/ \E s \in Students :
          /\ \A u \in Students \ {s} : Same(u)
          /\ \/ Change(s) /\ loose' = loose
             \/ loose' = loose \cup {s}
     \/ (\A s \in Students : Forfeit(s)) /\ loose' = loose

Spec == Init /\ [][Next]_accounts
=============================================================================
