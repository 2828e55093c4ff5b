--------------------------- MODULE TempDirectories ---------------------------
(***************************************************************************)
(* Temporary directories (filesystem/tempfile.hpp) that several owners     *)
(* create, fill and remove in one place at the same time.  A random name   *)
(* is any of Names, taken ones included; the file system (external) tells  *)
(* who has created a directory.  A removal takes the contents first.       *)
(***************************************************************************)
EXTENDS Integers, FiniteSets

CONSTANTS Owners, Names, MaxAttempts

VARIABLES
  exists,   \* the directories there are, and who has put a file into each
  owner     \* what each owner is doing, with which directory, after how many attempts

tempVars == <<exists, owner>>

None == "no name"
Out == [at |-> "out", dir |-> None, tries |-> 0]

TempInit ==
  /\ \E taken \in SUBSET Names : exists = [d \in taken |-> {}]
  /\ owner = [o \in Owners |-> Out]

-----------------------------------------------------------------------------
(* Plausible mistakes, to stand in for the definition they misspell. *)

\* Whether the directory is there is asked before it is created, and the creation is trusted.
CreateAfterLooking(o, d) ==
  \/ owner[o].dir = None /\ d \notin DOMAIN exists /\ owner' = [owner EXCEPT ![o].dir = d] /\ UNCHANGED exists
  \/ /\ owner[o].dir = d
     /\ exists' = [e \in DOMAIN exists \cup {d} |-> IF e \in DOMAIN exists THEN exists[e] ELSE {}]
     /\ owner' = [owner EXCEPT ![o] = [at |-> "owns", dir |-> d, tries |-> 0]]

-----------------------------------------------------------------------------
\* mkdtemp: an attempt counts when create_directories says that it created the directory.
Create(o, d) ==
  IF d \in DOMAIN exists
  THEN owner' = [owner EXCEPT ![o].tries = @ + 1] /\ UNCHANGED exists
  ELSE /\ exists' = [e \in DOMAIN exists \cup {d} |-> IF e = d THEN {} ELSE exists[e]]
       /\ owner' = [owner EXCEPT ![o] = [at |-> "owns", dir |-> d, tries |-> 0]]

Attempt(o) ==
  /\ owner[o].at = "out" /\ owner[o].tries < MaxAttempts
  /\ \E d \in Names : Create(o, d)

\* All attempts used up, or an error of the file system: an exception, and no directory.
GiveUp(o) ==
  /\ owner[o].at = "out" /\ owner[o].tries > 0
  /\ owner' = [owner EXCEPT ![o] = Out] /\ UNCHANGED exists

PutFile(o) ==
  /\ owner[o].at = "owns"
  /\ exists' = [exists EXCEPT ![owner[o].dir] = @ \cup {o}] /\ UNCHANGED owner

\* The destructor: remove_all takes what is in the directory, then the directory.
RemoveContents(o) ==
  /\ owner[o].at = "owns"
  /\ exists' = [exists EXCEPT ![owner[o].dir] = {}]
  /\ owner' = [owner EXCEPT ![o].at = "removing"]

RemoveDirectory(o) ==
  /\ owner[o].at = "removing"
  /\ exists' = [e \in DOMAIN exists \ {owner[o].dir} |-> exists[e]]
  /\ owner' = [owner EXCEPT ![o] = Out]

TempNext ==
  \E o \in Owners :
    Attempt(o) \/ GiveUp(o) \/ PutFile(o) \/ RemoveContents(o) \/ RemoveDirectory(o)

TempSpec == TempInit /\ [][TempNext]_tempVars

-----------------------------------------------------------------------------
\* A directory has at most one owner, and nobody else's files are in it when it is removed.
DirectoriesAreOwned ==
  \A o \in Owners : owner[o].at # "out" =>
    /\ owner[o].dir \in DOMAIN exists /\ exists[owner[o].dir] \subseteq {o}
    /\ \A p \in Owners \ {o} : owner[p].at = "out" \/ owner[p].dir # owner[o].dir
=============================================================================
