---------------------------- MODULE MCSourceDir ----------------------------
EXTENDS SourceDir

All ==
  {iofs, file, httpfs, pkger, vfs, bindata, s3, gcs, github, github_ee, gitlab, bitbucket}

Name(num, direction, title, isDir) ==
  [num |-> num, direction |-> direction, title |-> title, isDir |-> isDir]

\* With MaxInt = 1 the largest version is 3.
Names ==
  {Name(0, "up", "a", FALSE), Name(1, "up", "a", FALSE), Name(1, "down", "a", FALSE),
   Name(1, "up", "b", FALSE), Name(3, "up", "a", FALSE), Name(2, "down", "a", TRUE),
   Name(4, "up", "a", FALSE)}

AnyVersion == 0..MaxUint
=============================================================================
