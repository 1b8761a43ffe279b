------------------------------- MODULE MCCli -------------------------------
EXTENDS Cli, TLC

C(c, args, flag) == [NoCommand EXCEPT !.cmd = c, !.args = args, !.flag = flag]
New(seq, digits, format, name) ==
  [NoCommand EXCEPT !.cmd = "create", !.seq = seq, !.digits = digits, !.format = format, !.name = name]

\* With MaxInt = 3 an argument of 4..7 does not fit an int; -1 and 8 are no uint.
EngineCommands ==
  {C("goto", <<>>, FALSE), C("goto", <<1>>, FALSE), C("goto", <<3>>, FALSE),
   C("goto", <<6>>, FALSE), C("goto", <<7>>, FALSE), C("up", <<>>, FALSE),
   C("up", <<1>>, FALSE), C("up", <<5>>, FALSE), C("up", <<8>>, FALSE), C("up", <<-1>>, FALSE),
   C("down", <<>>, FALSE), C("down", <<>>, TRUE), C("down", <<1>>, FALSE), C("down", <<1>>, TRUE),
   C("down", <<5>>, FALSE), C("down", <<1, 1>>, FALSE), C("drop", <<>>, FALSE), C("drop", <<>>, TRUE),
   C("force", <<-2>>, FALSE), C("force", <<-1>>, FALSE), C("version", <<>>, FALSE), NoCommand}

CreateCommands ==
  {New(TRUE, 1, "default", "a"), New(TRUE, 2, "default", "a"), New(TRUE, 2, "default", "b"),
   New(TRUE, 0, "default", "a"), New(TRUE, 2, "coarse", "a"), New(FALSE, 2, "empty", "a"),
   [New(TRUE, 2, "default", "a") EXCEPT !.complete = FALSE],
   New(FALSE, 6, "default", "a"), New(FALSE, 6, "default", "b"), New(FALSE, 6, "coarse", "a")}

AllCommands == EngineCommands \cup CreateCommands

F(width, num) == [version |-> [width |-> width, num |-> num], name |-> "x", direction |-> "up"]

\* Directories with nothing, one width, two widths, a foreign file, the last number.
SomeDirectories ==
  {{}, {F(2, 1), F(2, 3)}, {F(1, 1), F(2, 2)}, {F(2, 1), F(0, 0)}, {F(2, 7)}, {F(2, 8)}}

Symmetry == Permutations(Procs)
=============================================================================
