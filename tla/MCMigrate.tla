------------------------------ MODULE MCMigrate ------------------------------
EXTENDS Migrate, TLC

\* Operations without and with an argument.
O(k, n) == [kind |-> k, n |-> n, list |-> <<>>]

\* A migration of the application's own, for Run.
Own(t) == [err |-> "nil", version |-> 5, target |-> t, body |-> TRUE]

Index3 == <<1, 3, 4>>
Index2 == <<1, 3>>
Index5 == <<0, 1, 3, 4, 6>>
IndexWide == <<3, MaxInt + 2>>

Nil3 == {NilVersion, 3}

OpsAll ==
  {O("Up", 0), O("Down", 0), O("Drop", 0), O("Run", 0),
   O("Migrate", 1), O("Migrate", 4), O("Migrate", 2),
   O("Steps", 0), O("Steps", 2), O("Steps", -2), O("Steps", 4), O("Steps", -4),
   O("Force", -2), O("Force", -1), O("Force", 3),
   [kind |-> "Run", n |-> 0, list |-> <<Own(4), Own(3)>>]}

OpsStop == {O("Up", 0), O("Down", 0)}

OpsTwo == {O("Up", 0), O("Steps", -1), O("Force", 1)}

OpsWide == {O("Up", 0), O("Migrate", MaxInt + 2), O("Steps", MinInt)}

Nil == {NilVersion}

Symmetry == Permutations(Procs)
=============================================================================
