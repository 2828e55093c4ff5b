--------------------------- MODULE LibraryProofs ---------------------------
(***************************************************************************)
(* Proofs about two parts of Library.  Files: for all elements that are    *)
(* natural numbers, as the units of the file are, and all bounds, what was *)
(* saved comes back, because between the two steps of from_file the count  *)
(* that was read is the file's or the reader is outdated.  Temporary       *)
(* directories: for every set of owners and of names and every number of   *)
(* attempts, what was created is owned by one and removed empty; that a    *)
(* directory has one owner is inductive once it is said that what a        *)
(* removal has emptied stays empty.                                        *)
(***************************************************************************)
EXTENDS Files, TempDirectories, SequenceTheorems, WellFoundedInduction, TLAPS

-----------------------------------------------------------------------------
(* Chunks behind each other *)

LEMMA LeastElement ==
  ASSUME NEW T \in SUBSET Nat, T # {}
  PROVE  \E x \in T : \A y \in T : x <= y
<1> DEFINE R == {p \in Nat \X Nat : p[1] < p[2]}
<1>1. IsWellFoundedOn(R, Nat)
  BY NatLessThanWellFounded, Zenon DEF OpToRel
<1>2. \A x, y \in Nat : y < x => <<y, x>> \in R
  OBVIOUS
<1> HIDE DEF R
<1>3. PICK x \in T : \A y \in T : ~ (<<y, x>> \in R)
  BY <1>1, WFMin
<1>4. \A y \in T : ~ (y < x)
  BY <1>2, <1>3, Zenon
<1> QED
  BY <1>4, SMT

\* The recursive definition has a function that it defines; it passes one chunk after the other.
LEMMA BeginIs ==
  ASSUME NEW s \in Seq(Seq(Nat))
  PROVE  /\ BeginOf(s, 1) = 0
         /\ \A j \in 1 .. Len(s) + 1 : BeginOf(s, j) \in Nat
         /\ \A j \in 1 .. Len(s) : BeginOf(s, j + 1) = (BeginOf(s, j) + 1) + Len(s[j])
<1> DEFINE n == Len(s) + 1
           Sums(g, m) == g = [i \in 1 .. m |-> IF i = 1 THEN 0 ELSE (g[i - 1] + 1) + Len(s[i - 1])]
           T == {m \in 1 .. n : ~ \E g : Sums(g, m)}
<1>1. n \in Nat \ {0} /\ \A i \in 1 .. n - 1 : Len(s[i]) \in Nat
  OBVIOUS
<1>2. n - 1 = Len(s)
  OBVIOUS
<1> HIDE DEF n
<1>3. T = {}
  <2> SUFFICES ASSUME T # {} PROVE FALSE
    OBVIOUS
  <2>1. T \in SUBSET Nat
    BY <1>1
  <2>2. PICK m \in T : \A l \in T : m <= l
    BY <2>1, LeastElement
  <2>3. m \in 1 .. n /\ ~ \E g : Sums(g, m)
    BY <2>2
  <2>4. m # 1
    <3>1. Sums([i \in 1 .. 1 |-> 0], 1)
      OBVIOUS
    <3> QED
      BY <2>3, <3>1
  <2>5. m - 1 \in 1 .. n /\ m - 1 \notin T
    <3>1. m - 1 \in 1 .. n /\ ~ (m <= m - 1)
      BY <1>1, <2>3, <2>4
    <3> HIDE DEF T
    <3> QED
      BY <2>2, <3>1
  <2>6. PICK g : Sums(g, m - 1)
    BY <2>5
  <2> DEFINE f == [i \in 1 .. m |-> IF i = m THEN (g[m - 1] + 1) + Len(s[m - 1]) ELSE g[i]]
  <2>7. \A i \in 1 .. m : f[i] = IF i = 1 THEN 0 ELSE (f[i - 1] + 1) + Len(s[i - 1])
    <3> TAKE i \in 1 .. m
    <3>1. CASE i = m
      BY <2>3, <2>4, <2>5, <3>1
    <3>2. CASE i # m
      <4>1. i \in 1 .. m - 1 /\ f[i] = g[i] /\ (i # 1 => f[i - 1] = g[i - 1])
        BY <2>3, <2>5, <3>2
      <4>2. g[i] = IF i = 1 THEN 0 ELSE (g[i - 1] + 1) + Len(s[i - 1])
        BY <2>6, <4>1
      <4> QED
        BY <4>1, <4>2
    <3> QED
      BY <3>1, <3>2
  <2>8. Sums(f, m)
    BY <2>7
  <2> QED
    BY <2>3, <2>8
<1> DEFINE begin == CHOOSE g : Sums(g, n)
<1>4. Sums(begin, n)
  <2>1. n \in 1 .. n
    BY <1>1
  <2>2. \E g : Sums(g, n)
    BY <1>3, <2>1
  <2> QED
    BY <2>2
<1>5. \A j : BeginOf(s, j) = begin[j]
  BY DEF BeginOf, n
<1> HIDE DEF begin
<1>6. \A i \in 1 .. n : begin[i] = IF i = 1 THEN 0 ELSE (begin[i - 1] + 1) + Len(s[i - 1])
  BY <1>4
<1> DEFINE U == {m \in 1 .. n : begin[m] \notin Nat}
<1>7. U = {}
  <2> SUFFICES ASSUME U # {} PROVE FALSE
    OBVIOUS
  <2>1. U \in SUBSET Nat
    BY <1>1
  <2>2. PICK m \in U : \A l \in U : m <= l
    BY <2>1, LeastElement
  <2>3. m \in 1 .. n /\ begin[m] \notin Nat
    BY <2>2
  <2>4. m # 1
    BY <1>6, <2>3
  <2>5. m - 1 \in 1 .. n /\ m - 1 \in 1 .. n - 1 /\ m - 1 \notin U
    <3>1. m - 1 \in 1 .. n /\ m - 1 \in 1 .. n - 1 /\ ~ (m <= m - 1)
      BY <1>1, <2>3, <2>4
    <3> HIDE DEF U
    <3> QED
      BY <2>2, <3>1
  <2>6. begin[m - 1] \in Nat /\ begin[m] = (begin[m - 1] + 1) + Len(s[m - 1]) /\ Len(s[m - 1]) \in Nat
    BY <1>1, <1>6, <2>3, <2>4, <2>5
  <2> QED
    BY <2>3, <2>6
<1>8. ASSUME NEW j \in 1 .. n - 1 PROVE begin[j + 1] = (begin[j] + 1) + Len(s[j])
  <2>1. j + 1 \in 1 .. n /\ j + 1 # 1 /\ (j + 1) - 1 = j
    BY <1>1
  <2> QED
    BY <1>6, <2>1
<1>9. 1 \in 1 .. n
  BY <1>1
<1>10. \A j \in 1 .. n : begin[j] \in Nat
  BY <1>7
<1>11. begin[1] = 0
  BY <1>6, <1>9
<1>12. Len(s) + 1 = n
  BY DEF n
<1> QED
  BY <1>2, <1>5, <1>8, <1>10, <1>11, <1>12

\* A chunk ends where a later one begins, or before.
LEMMA BeginAscends ==
  ASSUME NEW s \in Seq(Seq(Nat)), NEW j \in 1 .. Len(s), NEW k \in 1 .. Len(s) + 1, j < k
  PROVE  (BeginOf(s, j) + 1) + Len(s[j]) <= BeginOf(s, k)
<1> DEFINE n == Len(s) + 1
           end == (BeginOf(s, j) + 1) + Len(s[j])
           T == {m \in 1 .. n : j < m /\ ~ (end <= BeginOf(s, m))}
<1>1. n \in Nat /\ n - 1 = Len(s) /\ j \in 1 .. n - 1 /\ k \in 1 .. n
      /\ \A i \in 1 .. n - 1 : Len(s[i]) \in Nat
  OBVIOUS
<1>2. /\ \A i \in 1 .. n : BeginOf(s, i) \in Nat
      /\ \A i \in 1 .. n - 1 : BeginOf(s, i + 1) = (BeginOf(s, i) + 1) + Len(s[i])
  BY <1>1, BeginIs
<1> HIDE DEF n
<1> SUFFICES ASSUME T # {} PROVE FALSE
  BY <1>1
<1>3. PICK m \in T : \A l \in T : m <= l
  <2>1. T \in SUBSET Nat
    BY <1>1
  <2> QED
    BY <2>1, LeastElement
<1>4. m \in 1 .. n /\ j < m /\ ~ (end <= BeginOf(s, m))
  BY <1>3
<1>5. m # j + 1
  <2>1. end \in Nat /\ BeginOf(s, j + 1) = end
    BY <1>1, <1>2
  <2> QED
    BY <1>4, <2>1
<1>6. m - 1 \in 1 .. n /\ m - 1 \in 1 .. n - 1 /\ j < m - 1 /\ (m - 1) + 1 = m
  BY <1>1, <1>4, <1>5
<1>7. end <= BeginOf(s, m - 1)
  <2>1. m - 1 \notin T
    <3>1. ~ (m <= m - 1)
      BY <1>6
    <3> QED
      BY <1>3, <3>1
  <2> QED
    BY <1>6, <2>1
<1>8. /\ BeginOf(s, m) = (BeginOf(s, m - 1) + 1) + Len(s[m - 1])
      /\ BeginOf(s, m - 1) \in Nat /\ Len(s[m - 1]) \in Nat /\ end \in Nat
  <2>1. BeginOf(s, (m - 1) + 1) = (BeginOf(s, m - 1) + 1) + Len(s[m - 1])
        /\ BeginOf(s, m - 1) \in Nat /\ Len(s[m - 1]) \in Nat
    BY <1>1, <1>2, <1>6
  <2>2. j \in 1 .. n
    BY <1>1
  <2>3. BeginOf(s, j) \in Nat /\ Len(s[j]) \in Nat
    BY <1>1, <1>2, <2>2
  <2>4. end \in Nat
    BY <2>3
  <2>5. BeginOf(s, m) = (BeginOf(s, m - 1) + 1) + Len(s[m - 1])
    BY <2>1, <1>6, Zenon
  <2> QED
    BY <2>1, <2>4, <2>5
<1> HIDE DEF end
<1> QED
  BY <1>4, <1>7, <1>8

\* What comes behind the chunks does not move them.
LEMMA BeginStaysBefore ==
  ASSUME NEW s \in Seq(Seq(Nat)), NEW cs \in Seq(Seq(Nat)), NEW k \in 1 .. Len(s) + 1
  PROVE  BeginOf(s \o cs, k) = BeginOf(s, k)
<1> DEFINE n == Len(s) + 1
           t == s \o cs
           T == {m \in 1 .. n : BeginOf(t, m) # BeginOf(s, m)}
<1>1. n \in Nat /\ n - 1 = Len(s) /\ k \in 1 .. n /\ t \in Seq(Seq(Nat)) /\ Len(t) >= n - 1 /\ Len(t) \in Nat
      /\ \A i \in 1 .. n - 1 : t[i] = s[i]
  OBVIOUS
<1>2. /\ BeginOf(s, 1) = 0 /\ BeginOf(t, 1) = 0
      /\ \A i \in 1 .. n - 1 : BeginOf(s, i + 1) = (BeginOf(s, i) + 1) + Len(s[i])
      /\ \A i \in 1 .. n - 1 : BeginOf(t, i + 1) = (BeginOf(t, i) + 1) + Len(t[i])
  <2>1. 1 .. n - 1 \subseteq 1 .. Len(t)
    BY <1>1
  <2>2. \A i \in 1 .. Len(t) : BeginOf(t, i + 1) = (BeginOf(t, i) + 1) + Len(t[i])
    BY <1>1, BeginIs
  <2> QED
    BY <1>1, <2>1, <2>2, BeginIs
<1> HIDE DEF n, t
<1> SUFFICES ASSUME T # {} PROVE FALSE
  BY <1>1 DEF t
<1>3. PICK m \in T : \A l \in T : m <= l
  <2>1. T \in SUBSET Nat
    BY <1>1
  <2> QED
    BY <2>1, LeastElement
<1>4. m \in 1 .. n /\ BeginOf(t, m) # BeginOf(s, m)
  BY <1>3
<1>5. m # 1
  BY <1>2, <1>4
<1>6. m - 1 \in 1 .. n - 1 /\ m - 1 \in 1 .. n /\ (m - 1) + 1 = m /\ ~ (m <= m - 1)
  BY <1>1, <1>4, <1>5
<1>7. BeginOf(t, m - 1) = BeginOf(s, m - 1)
  BY <1>3, <1>6
<1> QED
  BY <1>1, <1>2, <1>4, <1>6, <1>7

LEMMA BeginStays ==
  ASSUME NEW s \in Seq(Seq(Nat)), NEW c \in Seq(Nat), NEW k \in 1 .. Len(s) + 1
  PROVE  BeginOf(Append(s, c), k) = BeginOf(s, k)
<1>1. <<c>> \in Seq(Seq(Nat)) /\ Append(s, c) = s \o <<c>>
  OBVIOUS
<1> QED
  BY <1>1, BeginStaysBefore

-----------------------------------------------------------------------------
(* What a content holds *)

\* w is made of the chunks s: of each its length and its elements.
Holds(w, s) ==
  /\ Len(w) = BeginOf(s, Len(s) + 1)
  /\ \A j \in 1 .. Len(s) :
       /\ w[BeginOf(s, j) + 1] = Len(s[j])
       /\ \A i \in 1 .. Len(s[j]) : w[(BeginOf(s, j) + 1) + i] = s[j][i]

LEMMA NoneHolds == Holds(<<>>, <<>>)
<1>1. <<>> \in Seq(Seq(Nat)) /\ Len(<<>>) = 0
  OBVIOUS
<1>2. BeginOf(<<>>, 1) = 0
  BY <1>1, BeginIs
<1> QED
  BY <1>1, <1>2 DEF Holds

LEMMA OneMoreHolds ==
  ASSUME NEW w \in Seq(Nat), NEW s \in Seq(Seq(Nat)), NEW c \in Seq(Nat), Holds(w, s)
  PROVE  Holds(w \o (<<Len(c)>> \o c), Append(s, c))
<1> DEFINE u == w \o (<<Len(c)>> \o c)
           t == Append(s, c)
           n == Len(s) + 1
<1>1. /\ u \in Seq(Nat) /\ Len(u) = Len(w) + 1 + Len(c)
      /\ \A i \in 1 .. Len(w) : u[i] = w[i]
      /\ u[Len(w) + 1] = Len(c)
      /\ \A i \in 1 .. Len(c) : u[(Len(w) + 1) + i] = c[i]
      /\ Len(w) \in Nat /\ Len(c) \in Nat
  OBVIOUS
<1>2. /\ t \in Seq(Seq(Nat)) /\ Len(t) = n /\ t[n] = c /\ n \in Nat \ {0} /\ n - 1 = Len(s)
      /\ \A i \in 1 .. n - 1 : t[i] = s[i] /\ Len(s[i]) \in Nat
  OBVIOUS
<1>3. /\ \A i \in 1 .. n : BeginOf(t, i) = BeginOf(s, i) /\ BeginOf(s, i) \in Nat
      /\ BeginOf(t, n + 1) = (BeginOf(t, n) + 1) + Len(c)
      /\ BeginOf(s, n) = Len(w)
  <2>1. n \in 1 .. n
    BY <1>2
  <2>2. BeginOf(t, n + 1) = (BeginOf(t, n) + 1) + Len(c)
    BY <1>2, <2>1, BeginIs
  <2>3. \A i \in 1 .. Len(s) + 1 : BeginOf(Append(s, c), i) = BeginOf(s, i) /\ BeginOf(s, i) \in Nat
    BY BeginStays, BeginIs
  <2> QED
    BY <2>2, <2>3 DEF Holds
<1>4. \A i \in 1 .. n - 1 : (BeginOf(s, i) + 1) + Len(s[i]) <= Len(w)
  <2> TAKE i \in 1 .. n - 1
  <2>1. i \in 1 .. Len(s) /\ n \in 1 .. Len(s) + 1 /\ i < n
    BY <1>2
  <2> QED
    BY <2>1, <1>3, BeginAscends
<1>5. Len(w) \in Nat /\ Len(c) \in Nat
  OBVIOUS
<1> HIDE DEF u, t, n
<1>6. ASSUME NEW j \in 1 .. n
      PROVE  /\ u[BeginOf(t, j) + 1] = Len(t[j])
             /\ \A i \in 1 .. Len(t[j]) : u[(BeginOf(t, j) + 1) + i] = t[j][i]
  <2>1. CASE j = n
    <3>1. BeginOf(t, n) = Len(w) /\ t[n] = c
      <4>1. n \in 1 .. n
        BY <1>2
      <4> QED
        BY <4>1, <1>2, <1>3
    <3> QED
      BY <2>1, <3>1, <1>1
  <2>2. CASE j # n
    <3>1. j \in 1 .. n - 1 /\ j \in 1 .. Len(s)
      BY <2>2, <1>2
    <3>2. /\ BeginOf(t, j) = BeginOf(s, j) /\ t[j] = s[j] /\ BeginOf(s, j) \in Nat /\ Len(s[j]) \in Nat
          /\ (BeginOf(s, j) + 1) + Len(s[j]) <= Len(w)
      BY <3>1, <1>2, <1>3, <1>4
    <3>3. /\ w[BeginOf(s, j) + 1] = Len(s[j])
          /\ \A i \in 1 .. Len(s[j]) : w[(BeginOf(s, j) + 1) + i] = s[j][i]
      BY <3>1 DEF Holds
    <3>4. BeginOf(s, j) + 1 \in 1 .. Len(w)
      BY <3>2, <1>5
    <3>5. \A i \in 1 .. Len(s[j]) : (BeginOf(s, j) + 1) + i \in 1 .. Len(w)
      <4> TAKE i \in 1 .. Len(s[j])
      <4> DEFINE b == BeginOf(s, j)
                 l == Len(s[j])
                 e == Len(w)
      <4>1. b \in Nat /\ l \in Nat /\ e \in Nat /\ (b + 1) + l <= e /\ i \in 1 .. l
        BY <3>2, <1>5
      <4> HIDE DEF b, l, e
      <4>2. (b + 1) + i \in 1 .. e
        BY <4>1
      <4> QED
        BY <4>2 DEF b, e
    <3> QED
      BY <3>2, <3>3, <3>4, <3>5, <1>1
  <2> QED
    BY <2>1, <2>2
<1>7. Len(u) = BeginOf(t, n + 1)
  <2>1. BeginOf(t, n) = Len(w)
    <3>1. n \in 1 .. n
      BY <1>2
    <3> QED
      BY <3>1, <1>3
  <2>2. Len(u) = Len(w) + 1 + Len(c)
    BY <1>1
  <2>3. BeginOf(t, n + 1) = (BeginOf(t, n) + 1) + Len(c)
    BY <1>3
  <2> QED
    BY <2>1, <2>2, <2>3, <1>5
<1> QED
  BY <1>2, <1>6, <1>7 DEF Holds, u, t

-----------------------------------------------------------------------------
(* The inductive invariant *)

OpenWriters == [open : {TRUE}, pos : Nat]
OpenReaders ==
  [open : {TRUE}, pos : Nat, eof : BOOLEAN, err : BOOLEAN, seen : SUBSET Nat, outdated : BOOLEAN]
Calls == [call : {"from_file", "read_full"}, at : Nat, left : Nat]

FileTypeOK ==
  /\ disk \in Seq(Nat) /\ written \in Seq(Nat) /\ saved \in Seq(Seq(Nat))
  /\ writer \in {Closed} \cup OpenWriters /\ reader \in {Closed} \cup OpenReaders
  /\ doing \in {Nothing} \cup Calls

\* The file is never longer than what was written, and the writer leaves no gap.
NoGap ==
  /\ Len(disk) <= Len(written)
  /\ writer.open => writer.pos <= Len(written)

\* As long as nothing was overwritten what was written is the chunks, and the file its beginning.
SavedIsThere ==
  saved # <<>> =>
    /\ Holds(written, saved)
    /\ \A k \in 1 .. Len(disk) : disk[k] = written[k]

\* Between the two steps of from_file the count that was read is the file's, whatever the writer has
\* done since, unless the reader is outdated.
CountIsTheFiles ==
  doing # Nothing =>
    /\ reader \in OpenReaders
    /\ doing.call = "from_file" /\ ~reader.outdated =>
         /\ doing.at + 1 \in 1 .. Len(disk) /\ doing.left = disk[doing.at + 1]
         /\ reader.pos = doing.at + 1

FilesInv == FileTypeOK /\ NoGap /\ SavedIsThere /\ CountIsTheFiles /\ FilesGiveBack

LEMMA NothingIsNoCall == Nothing.call = "none" /\ Nothing \notin Calls /\ Closed \notin OpenReaders /\ Closed \notin OpenWriters
BY DEF Nothing, Calls, Closed, OpenReaders, OpenWriters

\* A call that promises nothing leaves nothing to be shown of it.
LEMMA NothingToShow == ASSUME last' = Nothing PROVE FilesGiveBack'
BY NothingIsNoCall DEF FilesGiveBack

\* Whatever the file becomes, what is read of it has not changed or the reader is outdated.
LEMMA ChangesAreSeen ==
  ASSUME FilesInv, NEW content \in Seq(Nat), FileBecomes(content)
  PROVE  /\ disk' = content /\ doing' = doing
         /\ reader' \in {Closed} \cup OpenReaders /\ CountIsTheFiles'
<1> DEFINE outdates == /\ reader.open /\ ~reader.outdated
                       /\ \E k \in reader.seen \cup IF doing.call = "from_file" THEN {doing.at + 1} ELSE {} :
                            k \notin DOMAIN content \/ content[k] # disk[k]
<1>1. /\ disk' = content /\ doing' = doing
      /\ reader' = IF outdates THEN [reader EXCEPT !.outdated = TRUE, !.seen = {}] ELSE reader
  BY DEF FileBecomes
<1>2. reader \in {Closed} \cup OpenReaders
  BY DEF FilesInv, FileTypeOK
<1>3. CASE outdates
  <2>1. reader \in OpenReaders
    BY <1>2, <1>3 DEF Closed
  <2>2. reader' = [reader EXCEPT !.outdated = TRUE, !.seen = {}]
    BY <1>1, <1>3
  <2>3. reader' \in OpenReaders /\ reader'.outdated
    BY <2>1, <2>2 DEF OpenReaders
  <2>4. CountIsTheFiles'
    BY <2>3 DEF CountIsTheFiles
  <2> QED
    BY <1>1, <2>3, <2>4
<1>4. CASE ~outdates
  <2>1. reader' = reader
    BY <1>1, <1>4
  <2>2. CountIsTheFiles'
    <3> SUFFICES ASSUME doing # Nothing
                 PROVE  /\ reader \in OpenReaders
                        /\ doing.call = "from_file" /\ ~reader.outdated =>
                             /\ doing.at + 1 \in 1 .. Len(content) /\ doing.left = content[doing.at + 1]
                             /\ reader.pos = doing.at + 1
      BY <1>1, <2>1 DEF CountIsTheFiles
    <3>1. reader \in OpenReaders
      BY DEF FilesInv, CountIsTheFiles
    <3>2. ASSUME doing.call = "from_file", ~reader.outdated
          PROVE  /\ doing.at + 1 \in 1 .. Len(content) /\ doing.left = content[doing.at + 1]
                 /\ reader.pos = doing.at + 1
      <4>1. doing.at + 1 \in 1 .. Len(disk) /\ doing.left = disk[doing.at + 1] /\ reader.pos = doing.at + 1
        BY <3>2 DEF FilesInv, CountIsTheFiles
      <4>2. reader.open
        BY <3>1 DEF OpenReaders
      <4>3. doing.at + 1 \in DOMAIN content /\ content[doing.at + 1] = disk[doing.at + 1]
        BY <1>4, <3>2, <4>2
      <4>4. DOMAIN content = 1 .. Len(content)
        OBVIOUS
      <4> QED
        BY <4>1, <4>3, <4>4
    <3> QED
      BY <3>1, <3>2
  <2> QED
    BY <1>1, <1>2, <2>1, <2>2
<1> QED
  BY <1>3, <1>4

-----------------------------------------------------------------------------
(* The writer *)

LEMMA ContainersAreSequences ==
  ASSUME NEW c \in Containers
  PROVE  c \in Seq(Nat)
<1>1. PICK n \in 0 .. MaxElements : c \in [1 .. n -> Units]
  BY DEF Containers
<1>2. n \in Nat /\ Units \subseteq Nat
  BY FilesAssumption
<1>3. c \in [1 .. n -> Nat]
  BY <1>1, <1>2
<1> QED
  BY <1>2, <1>3

LEMMA OpenWriterKeeps == ASSUME FilesInv, OpenWriter PROVE FilesInv'
<1>1. /\ writer' = [open |-> TRUE, pos |-> 0] /\ written' = <<>> /\ saved' = <<>> /\ last' = Nothing
      /\ FileBecomes(<<>>)
  BY DEF OpenWriter
<1>2. disk' = <<>> /\ doing' = doing /\ reader' \in {Closed} \cup OpenReaders /\ CountIsTheFiles'
  <2>1. <<>> \in Seq(Nat)
    OBVIOUS
  <2> QED
    BY <2>1, <1>1, ChangesAreSeen
<1>3. FileTypeOK'
  BY <1>1, <1>2 DEF FilesInv, FileTypeOK, OpenWriters
<1>4. NoGap' /\ SavedIsThere'
  BY <1>1, <1>2 DEF NoGap, SavedIsThere
<1> QED
  BY <1>1, <1>2, <1>3, <1>4, NothingToShow DEF FilesInv

LEMMA CloseWriterKeeps == ASSUME FilesInv, CloseWriter PROVE FilesInv'
<1>1. PICK content \in {disk, written} : FileBecomes(content)
  BY DEF CloseWriter
<1>2. writer' = Closed /\ UNCHANGED <<written, saved>> /\ last' = Nothing
  BY DEF CloseWriter
<1>3. disk' = content /\ doing' = doing /\ reader' \in {Closed} \cup OpenReaders /\ CountIsTheFiles'
  <2>1. content \in Seq(Nat)
    BY <1>1 DEF FilesInv, FileTypeOK
  <2> QED
    BY <2>1, <1>1, ChangesAreSeen
<1>4. FileTypeOK'
  BY <1>1, <1>2, <1>3 DEF FilesInv, FileTypeOK
<1>5. NoGap' /\ SavedIsThere'
  BY <1>1, <1>2, <1>3 DEF FilesInv, FileTypeOK, NoGap, SavedIsThere, Closed
<1> QED
  BY <1>2, <1>3, <1>4, <1>5, NothingToShow DEF FilesInv

LEMMA SeekWriterKeeps == ASSUME FilesInv, NEW pos, SeekWriter(pos) PROVE FilesInv'
<1>1. /\ writer.open /\ pos \in 0 .. Len(written) /\ writer' = [writer EXCEPT !.pos = pos]
      /\ UNCHANGED <<disk, written, saved, reader, doing>> /\ last' = Nothing
  BY DEF SeekWriter
<1>2. writer \in OpenWriters /\ pos \in Nat
  BY <1>1 DEF FilesInv, FileTypeOK, Closed
<1>3. writer' \in OpenWriters /\ writer'.pos = pos
  BY <1>1, <1>2 DEF OpenWriters
<1>4. FileTypeOK' /\ NoGap'
  BY <1>1, <1>3 DEF FilesInv, FileTypeOK, NoGap
<1>5. SavedIsThere' /\ CountIsTheFiles'
  BY <1>1 DEF FilesInv, SavedIsThere, CountIsTheFiles
<1> QED
  BY <1>1, <1>4, <1>5, NothingToShow DEF FilesInv

LEMMA FlushKeeps == ASSUME FilesInv, NEW n, Flush(n) PROVE FilesInv'
<1>1. written \in Seq(Nat) /\ disk \in Seq(Nat) /\ Len(written) \in Nat /\ Len(disk) \in Nat
  BY DEF FilesInv, FileTypeOK
<1>2. n \in 0 .. Len(written) /\ FileBecomes(SubSeq(written, 1, n))
      /\ UNCHANGED <<written, saved, writer>> /\ last' = Nothing
  BY <1>1 DEF Flush
<1>3. /\ SubSeq(written, 1, n) \in Seq(Nat) /\ Len(SubSeq(written, 1, n)) = n
      /\ \A k \in 1 .. n : SubSeq(written, 1, n)[k] = written[k]
  BY <1>1, <1>2
<1>4. /\ disk' = SubSeq(written, 1, n) /\ doing' = doing
      /\ reader' \in {Closed} \cup OpenReaders /\ CountIsTheFiles'
  BY <1>2, <1>3, ChangesAreSeen
<1>5. FileTypeOK' /\ NoGap'
  BY <1>1, <1>2, <1>3, <1>4 DEF FilesInv, FileTypeOK, NoGap
<1>6. SavedIsThere'
  BY <1>2, <1>3, <1>4 DEF FilesInv, SavedIsThere
<1> QED
  BY <1>2, <1>4, <1>5, <1>6, NothingToShow DEF FilesInv

LEMMA ConcatIs ==
  ASSUME NEW s \in Seq(Nat), NEW t \in Seq(Nat)
  PROVE  s \o t \in Seq(Nat) /\ Len(s \o t) = Len(s) + Len(t)
OBVIOUS

\* What is written at the end lengthens the content, elsewhere it may.
LEMMA OverwrittenIs ==
  ASSUME NEW w \in Seq(Nat), NEW pos \in 0 .. Len(w), NEW u \in Seq(Nat)
  PROVE  /\ Overwritten(w, pos, u) \in Seq(Nat)
         /\ Len(Overwritten(w, pos, u)) >= Len(w) /\ Len(Overwritten(w, pos, u)) >= pos + Len(u)
         /\ pos = Len(w) => Overwritten(w, pos, u) = w \o u
<1> DEFINE a == SubSeq(w, 1, pos)
           z == SubSeq(w, (pos + Len(u)) + 1, Len(w))
<1>1. Len(w) \in Nat /\ Len(u) \in Nat /\ pos \in Nat /\ pos <= Len(w)
  OBVIOUS
<1>2. a \in Seq(Nat) /\ Len(a) = pos
  BY <1>1
<1>3. z \in Seq(Nat) /\ Len(z) = IF pos + Len(u) < Len(w) THEN Len(w) - (pos + Len(u)) ELSE 0
  BY <1>1
<1>4. Overwritten(w, pos, u) = (a \o u) \o z
  BY DEF Overwritten
<1>5. pos = Len(w) => a = w /\ z = <<>>
  <2> SUFFICES ASSUME pos = Len(w) PROVE a = w /\ z = <<>>
    OBVIOUS
  <2>1. a = w
    BY <1>1
  <2>2. Len(z) = 0
    BY <1>1, <1>3
  <2> QED
    BY <2>1, <2>2, <1>3
<1> HIDE DEF a, z
<1>6. (a \o u) \in Seq(Nat) /\ Len(a \o u) = pos + Len(u)
  BY <1>2, ConcatIs
<1> DEFINE au == a \o u
           o == Overwritten(w, pos, u)
<1>7. au \in Seq(Nat) /\ Len(au) = pos + Len(u) /\ o = au \o z
  BY <1>4, <1>6
<1>8. pos = Len(w) => o = w \o u
  <2> SUFFICES ASSUME pos = Len(w) PROVE o = w \o u
    OBVIOUS
  <2>1. au = w \o u /\ z = <<>>
    BY <1>5
  <2> HIDE DEF au, o
  <2> QED
    BY <2>1, <1>7
<1> HIDE DEF au, o
<1>9. o \in Seq(Nat) /\ Len(o) = (pos + Len(u)) + Len(z) /\ Len(z) \in Nat
  <2>1. z \in Seq(Nat)
    BY <1>3
  <2>2. au \o z \in Seq(Nat) /\ Len(au \o z) = Len(au) + Len(z)
    BY <2>1, <1>7, ConcatIs
  <2>3. Len(z) \in Nat
    BY <2>1
  <2> QED
    BY <2>2, <2>3, <1>7
<1>10. Len(o) >= Len(w) /\ Len(o) >= pos + Len(u)
  <2> DEFINE lw == Len(w)
             lu == Len(u)
             lz == Len(z)
             lo == Len(o)
  <2>1. /\ lw \in Nat /\ lu \in Nat /\ lz \in Nat /\ pos \in Nat /\ pos <= lw /\ lo = (pos + lu) + lz
        /\ lz = IF pos + lu < lw THEN lw - (pos + lu) ELSE 0
    BY <1>1, <1>3, <1>9
  <2> HIDE DEF lw, lu, lz, lo
  <2>2. lo >= lw /\ lo >= pos + lu
    BY <2>1
  <2> QED
    BY <2>2 DEF lo, lw, lu
<1> QED
  BY <1>8, <1>9, <1>10 DEF o

\* The units of some chunks that are saved; Writes says what they are when they come to the end.
LEMMA SavesKeeps ==
  ASSUME FilesInv, NEW u \in Seq(Nat), NEW cs \in Seq(Seq(Nat)), WriteUnits(u), Saves(cs),
         UNCHANGED <<disk, reader, doing>>, last' = Nothing,
         Holds(written, saved) => Holds(written \o u, saved \o cs)
  PROVE  FilesInv'
<1> DEFINE p == writer.pos
<1>1. /\ writer.open /\ written' = Overwritten(written, p, u)
      /\ writer' = [writer EXCEPT !.pos = p + Len(u)]
  BY DEF WriteUnits
<1>2. writer \in OpenWriters /\ p \in Nat /\ p <= Len(written)
      /\ written \in Seq(Nat) /\ disk \in Seq(Nat) /\ saved \in Seq(Seq(Nat))
      /\ Len(written) \in Nat /\ Len(disk) \in Nat /\ Len(u) \in Nat /\ Len(disk) <= Len(written)
  <2>1. writer \in OpenWriters
    BY <1>1 DEF FilesInv, FileTypeOK, Closed
  <2>2. p \in Nat
    BY <2>1 DEF OpenWriters
  <2>3. /\ written \in Seq(Nat) /\ disk \in Seq(Nat) /\ saved \in Seq(Seq(Nat))
        /\ Len(disk) <= Len(written) /\ p <= Len(written)
    BY <1>1 DEF FilesInv, FileTypeOK, NoGap
  <2> HIDE DEF p
  <2> QED
    BY <2>1, <2>2, <2>3
<1>3. writer' \in OpenWriters /\ writer'.pos = p + Len(u)
  <2>1. writer.pos + Len(u) \in Nat
    BY <1>2
  <2> QED
    BY <1>1, <1>2, <2>1 DEF OpenWriters
<1> HIDE DEF p
<1>4. /\ written' \in Seq(Nat) /\ Len(written') >= Len(written) /\ Len(written') >= p + Len(u)
      /\ p = Len(written) => written' = written \o u
  <2>1. p \in 0 .. Len(written)
    BY <1>2
  <2> QED
    BY <1>1, <1>2, <2>1, OverwrittenIs, Zenon
<1>5. /\ saved' \in Seq(Seq(Nat))
      /\ saved' # <<>> => /\ saved' = saved \o cs
                         /\ p = Len(written) /\ p = BeginOf(saved, Len(saved) + 1)
  BY <1>2 DEF Saves, p
<1>6. FileTypeOK'
  BY <1>2, <1>3, <1>4, <1>5 DEF FilesInv, FileTypeOK
<1>7. NoGap'
  <2>1. Len(written') \in Nat
    BY <1>4
  <2> QED
    BY <2>1, <1>2, <1>3, <1>4 DEF NoGap
<1>8. ASSUME saved' # <<>> PROVE Holds(written, saved) /\ \A k \in 1 .. Len(disk) : disk[k] = written[k]
  <2>1. CASE saved # <<>>
    BY <2>1 DEF FilesInv, SavedIsThere
  <2>2. CASE saved = <<>>
    <3>1. Len(written) = 0
      <4>1. Len(written) = BeginOf(saved, Len(saved) + 1)
        BY <1>5, <1>8
      <4>2. Len(saved) + 1 = 1
        BY <2>2
      <4>3. BeginOf(saved, 1) = 0
        BY <1>2, BeginIs
      <4> QED
        BY <4>1, <4>2, <4>3, Zenon
    <3>2. written = <<>> /\ Len(disk) = 0
      BY <1>2, <3>1
    <3> QED
      BY <2>2, <3>2, NoneHolds
  <2> QED
    BY <2>1, <2>2
<1>9. SavedIsThere'
  <2> SUFFICES ASSUME saved' # <<>>
               PROVE  Holds(written', saved') /\ \A k \in 1 .. Len(disk) : disk[k] = written'[k]
    BY DEF SavedIsThere
  <2>1. saved' = saved \o cs /\ written' = written \o u
    BY <1>4, <1>5
  <2>2. \A k \in 1 .. Len(disk) : written'[k] = written[k]
    BY <2>1, <1>2
  <2> QED
    BY <2>1, <2>2, <1>8
<1>10. CountIsTheFiles'
  BY DEF FilesInv, CountIsTheFiles
<1> QED
  BY <1>6, <1>7, <1>9, <1>10, NothingToShow DEF FilesInv

LEMMA SaveChunkKeeps ==
  ASSUME FilesInv, NEW c \in Containers, SaveChunk(c)
  PROVE  FilesInv'
<1>1. c \in Seq(Nat) /\ Len(c) \in Nat
  BY ContainersAreSequences
<1>2. <<Len(c)>> \o c \in Seq(Nat) /\ <<c>> \in Seq(Seq(Nat))
  BY <1>1
<1>3. WriteUnits(<<Len(c)>> \o c) /\ Saves(<<c>>) /\ UNCHANGED <<disk, reader, doing>> /\ last' = Nothing
  BY DEF SaveChunk
<1>4. ASSUME Holds(written, saved) PROVE Holds(written \o (<<Len(c)>> \o c), saved \o <<c>>)
  <2>1. written \in Seq(Nat) /\ saved \in Seq(Seq(Nat)) /\ saved \o <<c>> = Append(saved, c)
    BY <1>1 DEF FilesInv, FileTypeOK
  <2> QED
    BY <2>1, <1>1, <1>4, OneMoreHolds
<1> QED
  BY <1>2, <1>3, <1>4, SavesKeeps

LEMMA SaveNestedKeeps ==
  ASSUME FilesInv, NEW c \in Containers, NEW d \in Containers, SaveNested(c, d)
  PROVE  FilesInv'
<1> DEFINE cu == <<Len(c)>> \o c
           du == <<Len(d)>> \o d
           u == <<Len(c)>> \o c \o <<Len(d)>> \o d
<1>1. c \in Seq(Nat) /\ Len(c) \in Nat /\ d \in Seq(Nat) /\ Len(d) \in Nat
  BY ContainersAreSequences
<1>2. cu \in Seq(Nat) /\ du \in Seq(Nat) /\ <<c, d>> \in Seq(Seq(Nat))
  BY <1>1
<1>3. u = cu \o du
  BY <1>1
<1>4. WriteUnits(u) /\ Saves(<<c, d>>) /\ UNCHANGED <<disk, reader, doing>> /\ last' = Nothing
  BY DEF SaveNested
<1> HIDE DEF u
<1>5. ASSUME Holds(written, saved) PROVE Holds(written \o u, saved \o <<c, d>>)
  <2>1. written \in Seq(Nat) /\ saved \in Seq(Seq(Nat))
    BY DEF FilesInv, FileTypeOK
  <2>2. Holds(written \o cu, Append(saved, c)) /\ written \o cu \in Seq(Nat) /\ Append(saved, c) \in Seq(Seq(Nat))
    BY <2>1, <1>1, <1>2, <1>5, OneMoreHolds
  <2>3. Holds((written \o cu) \o du, Append(Append(saved, c), d))
    BY <2>2, <1>1, OneMoreHolds
  <2> HIDE DEF cu, du
  <2>4. (written \o cu) \o du = written \o (cu \o du)
    BY <2>1, <1>2
  <2>5. Append(Append(saved, c), d) = saved \o <<c, d>>
    BY <2>1, <1>1
  <2> QED
    BY <2>3, <2>4, <2>5, <1>3
<1>6. u \in Seq(Nat)
  <2> HIDE DEF cu, du
  <2> QED
    BY <1>2, <1>3, ConcatIs
<1> QED
  BY <1>2, <1>4, <1>5, <1>6, SavesKeeps

-----------------------------------------------------------------------------
(* The reader *)

LEMMA BuffersStay ==
  ASSUME NEW r, NEW pos \in Nat
  PROVE  Buffers(r, pos) \subseteq SUBSET Nat
BY DEF Buffers

LEMMA BehindStays ==
  ASSUME NEW r \in OpenReaders, NEW n \in Nat, NEW m \in Nat, NEW t \in Behind(r, n, m)
  PROVE  t \in OpenReaders /\ t.pos = r.pos + m /\ t.outdated = r.outdated
<1>1. PICK s \in (IF m = n /\ r.pos + 1 .. r.pos + m \subseteq r.seen THEN {r.seen} ELSE Buffers(r, r.pos + m)) :
        t = [r EXCEPT !.pos = @ + m, !.eof = m < n, !.seen = s]
  BY DEF Behind
<1>2. r.pos \in Nat /\ r.pos + m \in Nat /\ r.seen \in SUBSET Nat
  BY DEF OpenReaders
<1>3. s \in SUBSET Nat
  BY <1>1, <1>2, BuffersStay
<1>4. (m < n) \in BOOLEAN
  OBVIOUS
<1> QED
  BY <1>1, <1>2, <1>3, <1>4 DEF OpenReaders

LEMMA FreadStays ==
  ASSUME NEW r \in OpenReaders, NEW n \in Nat
  PROVE  Fread(r, n) \subseteq OpenReaders
<1> SUFFICES ASSUME NEW t \in Fread(r, n) PROVE t \in OpenReaders
  OBVIOUS
<1>1. CASE t \in UNION {Behind(r, n, m) : m \in {m \in 0 .. n : Gives(r, n, m)}}
  BY <1>1, BehindStays
<1>2. CASE t \in Failed(r, n)
  <2>1. PICK s \in UNION {Behind(r, n, m) : m \in {m \in 0 .. n : CanGive(r, m)}} :
          t = [s EXCEPT !.err = TRUE, !.eof = r.eof]
    BY <1>2 DEF Failed
  <2>2. s \in OpenReaders
    BY <2>1, BehindStays
  <2> QED
    BY <2>1, <2>2 DEF OpenReaders
<1> QED
  BY <1>1, <1>2 DEF Fread

LEMMA SoughtStays ==
  ASSUME NEW r \in OpenReaders, NEW pos \in Nat, NEW t \in Sought(r, pos)
  PROVE  t \in OpenReaders /\ t.pos = pos
<1>1. PICK s \in Buffers(r, pos) \cup IF {pos, pos + 1} \cap r.seen # {} THEN {r.seen} ELSE {} :
        t = [r EXCEPT !.pos = pos, !.eof = FALSE, !.seen = s]
  BY DEF Sought
<1>2. s \in SUBSET Nat
  <2>1. r.seen \in SUBSET Nat
    BY DEF OpenReaders
  <2> QED
    BY <1>1, <2>1, BuffersStay
<1> QED
  BY <1>1, <1>2 DEF OpenReaders

\* A reader that moves, or is opened or closed, leaves the rest as it is.
LEMMA MovesKeeps ==
  ASSUME FilesInv, NEW readers, readers \subseteq {Closed} \cup OpenReaders, Moves(readers)
  PROVE  FilesInv'
<1>1. /\ reader' \in {Closed} \cup OpenReaders /\ last' = Nothing /\ doing' = Nothing
      /\ UNCHANGED <<disk, written, saved, writer>>
  BY DEF Moves
<1>2. FileTypeOK' /\ NoGap' /\ SavedIsThere'
  BY <1>1 DEF FilesInv, FileTypeOK, NoGap, SavedIsThere
<1>3. CountIsTheFiles'
  BY <1>1 DEF CountIsTheFiles
<1> QED
  BY <1>1, <1>2, <1>3, NothingToShow DEF FilesInv

\* A call that looks and comes back
LEMMA LookingKeeps ==
  ASSUME FilesInv, reader \in OpenReaders, NEW call \in {"try_pread", "size"},
         Returns(call, reader.pos, <<>>), reader' \in Sought(reader, reader.pos)
  PROVE  FilesInv'
<1>1. /\ last' = [call |-> call, at |-> reader.pos, got |-> <<>>] /\ doing' = Nothing
      /\ UNCHANGED <<disk, written, saved, writer>>
  BY DEF Returns
<1>2. reader' \in OpenReaders /\ reader'.pos = reader.pos
  <2>1. reader.pos \in Nat
    BY DEF OpenReaders
  <2> QED
    BY <2>1, SoughtStays
<1>3. FileTypeOK' /\ NoGap' /\ SavedIsThere'
  BY <1>1, <1>2 DEF FilesInv, FileTypeOK, NoGap, SavedIsThere
<1>4. CountIsTheFiles'
  BY <1>1 DEF CountIsTheFiles
<1>5. FilesGiveBack'
  BY <1>1, <1>2 DEF FilesGiveBack
<1> QED
  BY <1>3, <1>4, <1>5 DEF FilesInv

\* The first step of a call; a count that was read is the file's.
LEMMA BeginsKeeps ==
  ASSUME FilesInv, reader \in OpenReaders, reader' \in OpenReaders,
         NEW call \in {"from_file", "read_full"}, NEW left \in Nat, Begins(call, left),
         call = "from_file" /\ ~reader'.outdated =>
           /\ reader.pos + 1 \in 1 .. Len(disk) /\ left = disk[reader.pos + 1]
           /\ reader'.pos = reader.pos + 1
  PROVE  FilesInv'
<1>1. /\ doing' = [call |-> call, at |-> reader.pos, left |-> left] /\ last' = Nothing
      /\ UNCHANGED <<disk, written, saved, writer>>
  BY DEF Begins
<1>2. reader.pos \in Nat
  BY DEF OpenReaders
<1>3. doing' \in Calls
  BY <1>1, <1>2 DEF Calls
<1>4. FileTypeOK' /\ NoGap' /\ SavedIsThere'
  BY <1>1, <1>3 DEF FilesInv, FileTypeOK, NoGap, SavedIsThere
<1>5. CountIsTheFiles'
  BY <1>1 DEF CountIsTheFiles
<1> QED
  BY <1>1, <1>4, <1>5, NothingToShow DEF FilesInv

\* m units behind the first p of a content
LEMMA PartIs ==
  ASSUME NEW s \in Seq(Nat), NEW p \in Nat, NEW m \in Nat, m = 0 \/ p + m <= Len(s)
  PROVE  /\ SubSeq(s, p + 1, p + m) \in Seq(Nat) /\ Len(SubSeq(s, p + 1, p + m)) = m
         /\ \A i \in 1 .. m : SubSeq(s, p + 1, p + m)[i] = s[p + i]
<1>1. CASE m = 0
  BY <1>1
<1>2. CASE m # 0
  <2>1. p + 1 \in 1 .. Len(s) /\ p + m \in 1 .. Len(s) /\ p + 1 <= p + m /\ (p + m) - (p + 1) + 1 = m
    BY <1>2
  <2>2. SubSeq(s, p + 1, p + m) \in Seq(Nat) /\ Len(SubSeq(s, p + 1, p + m)) = m
    BY <2>1
  <2>3. ASSUME NEW i \in 1 .. m PROVE SubSeq(s, p + 1, p + m)[i] = s[p + i]
    <3>1. i \in 1 .. (p + m) - (p + 1) + 1 /\ (p + 1) + i - 1 = p + i
      BY <2>1, <2>3
    <3> QED
      BY <2>1, <3>1
  <2> QED
    BY <2>2, <2>3
<1> QED
  BY <1>1, <1>2

LEMMA LoadCountKeeps == ASSUME FilesInv, reader \in OpenReaders, LoadCount PROVE FilesInv'
<1>1. CASE Moves(Fread(reader, 1))
  <2>1. Fread(reader, 1) \subseteq OpenReaders
    BY FreadStays
  <2> QED
    BY <1>1, <2>1, MovesKeeps
<1>2. ASSUME Gives(reader, 1, 1), reader' \in Behind(reader, 1, 1),
             NEW count \in Given(reader, 1), Begins("from_file", count[1])
      PROVE  FilesInv'
  <2>1. reader' \in OpenReaders /\ reader'.pos = reader.pos + 1 /\ reader'.outdated = reader.outdated
    BY <1>2, BehindStays
  <2>2. disk \in Seq(Nat) /\ reader.pos \in Nat /\ reader.outdated \in BOOLEAN
    BY DEF FilesInv, FileTypeOK, OpenReaders
  <2>3. CASE reader.outdated
    <3>1. count \in [1 .. 1 -> Units \cup 0 .. MaxElements]
      BY <1>2, <2>3 DEF Given
    <3>2. count[1] \in Nat
      <4>1. count[1] \in Units \cup 0 .. MaxElements
        BY <3>1
      <4>2. Units \cup 0 .. MaxElements \subseteq Nat
        BY FilesAssumption
      <4> QED
        BY <4>1, <4>2
    <3> QED
      BY <1>2, <2>1, <2>3, <3>2, BeginsKeeps
  <2>4. CASE ~reader.outdated
    <3>1. reader.pos + 1 <= Len(disk) /\ reader.pos + 1 \in 1 .. Len(disk)
      BY <1>2, <2>2, <2>4 DEF Gives, CanGive
    <3>2. count = SubSeq(disk, reader.pos + 1, reader.pos + 1)
      BY <1>2, <2>4 DEF Given
    <3>3. count[1] = disk[reader.pos + 1] /\ disk[reader.pos + 1] \in Nat
      <4> DEFINE p == reader.pos
      <4>1. p \in Nat /\ p + 1 <= Len(disk) /\ count = SubSeq(disk, p + 1, p + 1)
        BY <2>2, <3>1, <3>2
      <4> HIDE DEF p
      <4>2. count[1] = disk[p + 1]
        BY <2>2, <4>1, PartIs
      <4>3. disk[p + 1] \in Nat
        BY <2>2, <4>1
      <4> QED
        BY <4>2, <4>3 DEF p
    <3> QED
      BY <1>2, <2>1, <3>1, <3>3, BeginsKeeps
  <2> QED
    BY <2>3, <2>4
<1> QED
  BY <1>1, <1>2 DEF LoadCount

\* Of a chunk that was saved from_file has read the count, so it gives all of the elements.
LEMMA ElementsAreSaved ==
  ASSUME FilesInv, doing.call = "from_file", ~reader.outdated,
         NEW m \in Nat, m = doing.left, CanGive(reader, m),
         NEW j \in 1 .. Len(saved), BeginOf(saved, j) = doing.at
  PROVE  SubSeq(disk, reader.pos + 1, reader.pos + m) = saved[j]
<1> DEFINE a == doing.at
           c == saved[j]
           d == Len(disk)
<1>1. doing # Nothing
  BY NothingIsNoCall
<1>2. a + 1 \in 1 .. Len(disk) /\ m = disk[a + 1] /\ reader.pos = a + 1
  BY <1>1 DEF FilesInv, CountIsTheFiles
<1>3. a \in Nat /\ saved \in Seq(Seq(Nat)) /\ disk \in Seq(Nat) /\ d \in Nat
  <2>1. doing \in Calls
    BY <1>1 DEF FilesInv, FileTypeOK
  <2> QED
    BY <2>1 DEF FilesInv, FileTypeOK, Calls
<1>4. saved # <<>>
  BY <1>3
<1>5. /\ written[a + 1] = Len(c) /\ \A i \in 1 .. Len(c) : written[(a + 1) + i] = c[i]
      /\ \A k \in 1 .. d : disk[k] = written[k]
  BY <1>4 DEF FilesInv, SavedIsThere, Holds
<1>6. c \in Seq(Nat) /\ m = Len(c)
  BY <1>2, <1>3, <1>5
<1>7. m = 0 \/ (a + 1) + m <= d
  BY <1>2 DEF CanGive
<1>8. /\ \A i \in 1 .. m : disk[(a + 1) + i] = c[i]
      /\ SubSeq(disk, reader.pos + 1, reader.pos + m) = SubSeq(disk, (a + 1) + 1, (a + 1) + m)
  <2>1. ASSUME NEW i \in 1 .. m PROVE (a + 1) + i \in 1 .. d
    <3> HIDE DEF a, d
    <3> QED
      BY <2>1, <1>3, <1>7
  <2> QED
    BY <1>2, <1>5, <1>6, <2>1
<1> HIDE DEF a, c, d
<1> DEFINE got == SubSeq(disk, (a + 1) + 1, (a + 1) + m)
<1>9. got \in Seq(Nat) /\ Len(got) = m /\ \A i \in 1 .. m : got[i] = disk[(a + 1) + i]
  <2>1. a + 1 \in Nat /\ (m = 0 \/ (a + 1) + m <= Len(disk))
    BY <1>3, <1>7 DEF d
  <2> QED
    BY <2>1, <1>3, PartIs
<1> HIDE DEF got
<1>10. got = c
  BY <1>6, <1>8, <1>9
<1> QED
  BY <1>8, <1>10 DEF got, c

LEMMA LoadKeeps == ASSUME FilesInv, Load PROVE FilesInv'
<1>1. doing.call = "from_file" /\ doing \in Calls /\ doing # Nothing /\ doing.at \in Nat /\ doing.left \in Nat
  <2>1. doing.call = "from_file" /\ doing # Nothing
    BY NothingIsNoCall DEF Load
  <2>2. doing \in Calls
    BY <2>1 DEF FilesInv, FileTypeOK
  <2> QED
    BY <2>1, <2>2 DEF Calls
<1>2. reader \in OpenReaders
  BY <1>1 DEF FilesInv, CountIsTheFiles
<1>3. CASE Moves({reader} \cup Fread(reader, doing.left))
  <2>1. Fread(reader, doing.left) \subseteq OpenReaders
    BY <1>1, <1>2, FreadStays
  <2> QED
    BY <1>2, <1>3, <2>1, MovesKeeps
<1>4. ASSUME NEW m \in 0 .. doing.left, Gives(reader, doing.left, m), Accepts(m, doing.left),
             reader' \in Behind(reader, doing.left, m),
             NEW got \in Given(reader, m), Returns("from_file", doing.at, got)
      PROVE  FilesInv'
  <2>1. m \in Nat /\ m = doing.left /\ CanGive(reader, m)
    BY <1>1, <1>4 DEF Accepts, Gives
  <2>2. reader' \in OpenReaders /\ reader'.outdated = reader.outdated
    BY <1>1, <1>2, <1>4, <2>1, BehindStays
  <2>3. /\ last' = [call |-> "from_file", at |-> doing.at, got |-> got] /\ doing' = Nothing
        /\ UNCHANGED <<disk, written, saved, writer>>
    BY <1>4 DEF Returns
  <2>4. FileTypeOK' /\ NoGap' /\ SavedIsThere'
    BY <2>2, <2>3 DEF FilesInv, FileTypeOK, NoGap, SavedIsThere
  <2>5. CountIsTheFiles'
    BY <2>3 DEF CountIsTheFiles
  <2>6. ASSUME ~reader.outdated, NEW j \in 1 .. Len(saved), BeginOf(saved, j) = doing.at
        PROVE  got = saved[j]
    <3>1. got = SubSeq(disk, reader.pos + 1, reader.pos + m)
      BY <1>4, <2>6 DEF Given
    <3>2. SubSeq(disk, reader.pos + 1, reader.pos + m) = saved[j]
      BY <1>1, <2>1, <2>6, ElementsAreSaved
    <3> QED
      BY <3>1, <3>2
  <2>7. FilesGiveBack'
    BY <2>2, <2>3, <2>6 DEF FilesGiveBack
  <2> QED
    BY <2>4, <2>5, <2>7 DEF FilesInv
<1> QED
  BY <1>3, <1>4 DEF Load

LEMMA ReadFullKeeps == ASSUME FilesInv, ReadFull PROVE FilesInv'
<1>1. doing \in Calls /\ doing # Nothing
  <2>1. doing # Nothing
    BY NothingIsNoCall DEF ReadFull
  <2> QED
    BY <2>1 DEF FilesInv, FileTypeOK
<1>2. reader \in OpenReaders /\ doing.left \in Nat
  BY <1>1 DEF FilesInv, CountIsTheFiles, Calls
<1>3. Fread(reader, doing.left) \subseteq OpenReaders
  BY <1>2, FreadStays
<1> QED
  BY <1>2, <1>3, MovesKeeps DEF ReadFull

LEMMA SizeThrowsKeeps == ASSUME FilesInv, reader \in OpenReaders, SizeThrows PROVE FilesInv'
<1>1. Len(disk) \in Nat
  BY DEF FilesInv, FileTypeOK
<1>2. Sought(reader, Len(disk)) \subseteq OpenReaders
  BY <1>1, SoughtStays
<1> QED
  BY <1>2, MovesKeeps DEF SizeThrows

LEMMA AskFullKeeps == ASSUME FilesInv, reader \in OpenReaders, AskFull PROVE FilesInv'
<1>1. CASE Begins("read_full", Len(disk)) /\ reader' \in Sought(reader, 0)
  <2>1. Len(disk) \in Nat
    BY DEF FilesInv, FileTypeOK
  <2>2. reader' \in OpenReaders
    BY <1>1, SoughtStays
  <2> QED
    BY <1>1, <2>1, <2>2, BeginsKeeps
<1>2. CASE SizeThrows
  BY <1>2, SizeThrowsKeeps
<1>3. CASE Moves({reader})
  BY <1>3, MovesKeeps
<1> QED
  BY <1>1, <1>2, <1>3 DEF AskFull

\* The other calls of an open reader: each moves, or looks and comes back.
LEMMA CallsKeep ==
  ASSUME FilesInv, reader \in OpenReaders, NEW n \in Nat, NEW offset \in Nat,
         Size \/ Read(n) \/ SeekReader(offset) \/ TryPread(n, offset)
  PROVE  FilesInv'
<1>1. CASE Size
  BY <1>1, SizeThrowsKeeps, LookingKeeps DEF Size
<1>2. CASE Read(n)
  <2>1. Fread(reader, n) \subseteq OpenReaders
    BY FreadStays
  <2> QED
    BY <1>2, <2>1, MovesKeeps DEF Read
<1>3. CASE SeekReader(offset)
  <2>1. Sought(reader, offset) \subseteq OpenReaders
    BY SoughtStays
  <2> QED
    BY <1>3, <2>1, MovesKeeps DEF SeekReader
<1>4. CASE TryPread(n, offset)
  <2>1. UNION {{r} \cup Fread(r, n) : r \in Sought(reader, offset)} \subseteq OpenReaders
    BY SoughtStays, FreadStays
  <2>2. CASE Moves({reader} \cup UNION {{r} \cup Fread(r, n) : r \in Sought(reader, offset)})
    BY <2>1, <2>2, MovesKeeps
  <2>3. CASE Returns("try_pread", reader.pos, <<>>) /\ BackAfter(n, offset)
    BY <2>3, LookingKeeps DEF BackAfter
  <2> QED
    BY <1>4, <2>2, <2>3 DEF TryPread
<1> QED
  BY <1>1, <1>2, <1>3, <1>4

LEMMA OpenReaderKeeps == ASSUME FilesInv, OpenReader PROVE FilesInv'
<1> DEFINE r == [open |-> TRUE, pos |-> 0, eof |-> FALSE, err |-> FALSE, seen |-> {}, outdated |-> FALSE]
<1>1. r \in OpenReaders
  BY DEF OpenReaders
<1>2. ~reader.open /\ reader' = r /\ last' = Nothing /\ UNCHANGED <<disk, written, saved, writer, doing>>
  BY DEF OpenReader
<1>3. doing = Nothing
  BY <1>2 DEF FilesInv, CountIsTheFiles, OpenReaders
<1>4. Moves({r})
  BY <1>2, <1>3 DEF Moves
<1> HIDE DEF r
<1> QED
  BY <1>1, <1>4, MovesKeeps

LEMMA CloseReaderKeeps == ASSUME FilesInv, CloseReader PROVE FilesInv'
<1>1. Moves({Closed})
  BY DEF CloseReader, Moves
<1> QED
  BY <1>1, MovesKeeps

-----------------------------------------------------------------------------
LEMMA FilesInitInv == FileInit => FilesInv
<1> SUFFICES ASSUME FileInit PROVE FilesInv
  OBVIOUS
<1>1. FileTypeOK
  BY DEF FileInit, FileTypeOK
<1>2. NoGap /\ SavedIsThere
  BY DEF FileInit, NoGap, SavedIsThere, Closed
<1>3. CountIsTheFiles /\ FilesGiveBack
  BY NothingIsNoCall DEF FileInit, CountIsTheFiles, FilesGiveBack
<1> QED
  BY <1>1, <1>2, <1>3 DEF FilesInv

LEMMA FilesNextInv == ASSUME FilesInv, [FileNext]_fileVars PROVE FilesInv'
<1>1. CASE OpenWriter \/ CloseWriter \/ OpenReader \/ CloseReader
  BY <1>1, OpenWriterKeeps, CloseWriterKeeps, OpenReaderKeeps, CloseReaderKeeps
<1>2. CASE \E c \in Containers : SaveChunk(c) \/ \E d \in Containers : SaveNested(c, d)
  BY <1>2, SaveChunkKeeps, SaveNestedKeeps
<1>3. CASE \E n \in 0 .. MaxFile : SeekWriter(n) \/ Flush(n)
  BY <1>3, SeekWriterKeeps, FlushKeeps
<1>4. CASE ReadFull \/ Load
  BY <1>4, ReadFullKeeps, LoadKeeps
<1>5. CASE /\ reader.open /\ doing = Nothing
           /\ \/ Size \/ AskFull \/ LoadCount
              \/ \E offset \in 0 .. MaxFile :
                   SeekReader(offset) \/ \E n \in 1 .. MaxElements : Read(n) \/ TryPread(n, offset)
  <2>1. reader \in OpenReaders
    BY <1>5 DEF FilesInv, FileTypeOK, Closed
  <2>2. 0 .. MaxFile \subseteq Nat /\ 1 .. MaxElements \subseteq Nat /\ 0 \in Nat
    BY FilesAssumption
  <2>3. CASE AskFull \/ LoadCount
    BY <2>1, <2>3, AskFullKeeps, LoadCountKeeps
  <2>4. CASE Size
    BY <2>1, <2>2, <2>4, CallsKeep
  <2>5. CASE \E offset \in 0 .. MaxFile : SeekReader(offset)
    BY <2>1, <2>2, <2>5, CallsKeep
  <2>6. CASE \E offset \in 0 .. MaxFile : \E n \in 1 .. MaxElements : Read(n) \/ TryPread(n, offset)
    BY <2>1, <2>2, <2>6, CallsKeep
  <2> QED
    BY <1>5, <2>3, <2>4, <2>5, <2>6
<1>6. CASE UNCHANGED fileVars
  <2>1. UNCHANGED <<disk, written, saved, writer, reader, doing, last>>
    BY <1>6 DEF fileVars
  <2> QED
    BY <2>1 DEF FilesInv, FileTypeOK, NoGap, SavedIsThere, CountIsTheFiles, FilesGiveBack
<1> QED
  BY <1>1, <1>2, <1>3, <1>4, <1>5, <1>6 DEF FileNext

-----------------------------------------------------------------------------
\* For containers and files of every size, from_file at the place of a chunk that was saved gives this
\* chunk or throws, whatever of the file was flushed, lost when the writer was closed or cut off and
\* whatever the writer does between its two steps, unless units that the reader has buffered or read
\* were changed or cut off; and try_pread and size leave the position where it was, unless they throw.
THEOREM SavedComesBack == FileSpec => []FilesGiveBack
<1>1. FileInit => FilesInv
  BY FilesInitInv
<1>2. FilesInv /\ [FileNext]_fileVars => FilesInv'
  BY FilesNextInv
<1>3. FilesInv => FilesGiveBack
  BY DEF FilesInv
<1> QED
  BY <1>1, <1>2, <1>3, PTL DEF FileSpec

-----------------------------------------------------------------------------
(* Temporary directories *)

OwnerOK ==
  owner \in [Owners -> [at : {"out", "owns", "removing"}, dir : Names \cup {None}, tries : Int]]

ExistsOK == exists = [d \in DOMAIN exists |-> exists[d]]

\* Between the two steps of a removal the directory stays empty.
EmptiedStaysEmpty ==
  \A o \in Owners : owner[o].at = "removing" => exists[owner[o].dir] = {}

DirectoriesInv == OwnerOK /\ ExistsOK /\ DirectoriesAreOwned /\ EmptiedStaysEmpty

\* No file is lost with a directory that is removed.
RemovesEmptyOnes ==
  [][\A d \in DOMAIN exists : d \notin DOMAIN exists' => exists[d] = {}]_tempVars

-----------------------------------------------------------------------------
LEMMA DirectoriesInitInv == TempInit => DirectoriesInv
BY DEF TempInit, DirectoriesInv, OwnerOK, ExistsOK, DirectoriesAreOwned, EmptiedStaysEmpty, Out

LEMMA DirectoriesNextInv == DirectoriesInv /\ [TempNext]_tempVars => DirectoriesInv'
<1> SUFFICES ASSUME DirectoriesInv, [TempNext]_tempVars PROVE DirectoriesInv'
  OBVIOUS
<1> USE DEF DirectoriesInv, OwnerOK, ExistsOK, DirectoriesAreOwned, EmptiedStaysEmpty, Out
<1>1. ASSUME NEW o \in Owners, Attempt(o) PROVE DirectoriesInv'
  <2>1. PICK d \in Names : Create(o, d)
    BY <1>1 DEF Attempt
  <2>2. CASE d \in DOMAIN exists
    <3>1. exists' = exists /\ owner' = [owner EXCEPT ![o].tries = owner[o].tries + 1]
      BY <2>1, <2>2 DEF Create
    <3> QED
      BY <3>1
  <2>3. CASE d \notin DOMAIN exists
    <3>1. /\ exists' = [e \in DOMAIN exists \cup {d} |-> IF e = d THEN {} ELSE exists[e]]
          /\ owner' = [owner EXCEPT ![o] = [at |-> "owns", dir |-> d, tries |-> 0]]
      BY <2>1, <2>3 DEF Create
    <3> QED
      BY <2>3, <3>1
  <2> QED
    BY <2>2, <2>3
<1>2. ASSUME NEW o \in Owners, GiveUp(o) PROVE DirectoriesInv'
  BY <1>2 DEF GiveUp
<1>3. ASSUME NEW o \in Owners, PutFile(o) PROVE DirectoriesInv'
  <2> DEFINE d == owner[o].dir
  <2>1. /\ owner' = owner /\ DOMAIN exists' = DOMAIN exists
        /\ exists'[d] = exists[d] \cup {o}
        /\ \A e \in DOMAIN exists \ {d} : exists'[e] = exists[e]
    BY <1>3 DEF PutFile
  <2>2. ExistsOK'
    <3>1. exists' = [e \in DOMAIN exists |-> IF e = d THEN exists[d] \cup {o} ELSE exists[e]]
      <4> HIDE DEF DirectoriesInv
      <4> QED
        BY <1>3, Zenon DEF PutFile
    <3> QED
      BY <3>1
  <2>3. \A p \in Owners \ {o} : owner[p].at # "out" => owner[p].dir # d
    BY <1>3 DEF PutFile
  <2> HIDE DEF d
  <2>4. DirectoriesAreOwned'
    BY <2>1, <2>3, <1>3 DEF PutFile, d
  <2>5. EmptiedStaysEmpty'
    BY <2>1, <2>3, <1>3 DEF PutFile
  <2> QED
    BY <2>1, <2>2, <2>4, <2>5
<1>4. ASSUME NEW o \in Owners, RemoveContents(o) PROVE DirectoriesInv'
  <2> DEFINE d == owner[o].dir
  <2>1. /\ owner' = [owner EXCEPT ![o].at = "removing"]
        /\ DOMAIN exists' = DOMAIN exists /\ exists'[d] = {}
        /\ \A e \in DOMAIN exists \ {d} : exists'[e] = exists[e]
    BY <1>4 DEF RemoveContents
  <2>2. ExistsOK' /\ OwnerOK'
    <3>1. exists' = [e \in DOMAIN exists |-> IF e = d THEN {} ELSE exists[e]]
      <4> HIDE DEF DirectoriesInv
      <4> QED
        BY <1>4, Zenon DEF RemoveContents
    <3>2. OwnerOK'
      BY <1>4 DEF RemoveContents
    <3> QED
      BY <3>1, <3>2
  <2>3. \A p \in Owners \ {o} : owner[p].at # "out" => owner[p].dir # d
    BY <1>4 DEF RemoveContents
  <2>4. /\ owner[o].at = "owns" /\ owner'[o].dir = d /\ owner'[o].at = "removing"
        /\ \A p \in Owners \ {o} : owner'[p] = owner[p]
    BY <2>1, <1>4 DEF RemoveContents
  <2> HIDE DEF d
  <2>5. DirectoriesAreOwned'
    BY <2>1, <2>3, <2>4 DEF d
  <2>6. EmptiedStaysEmpty'
    BY <2>1, <2>3, <2>4
  <2> QED
    BY <2>2, <2>5, <2>6
<1>5. ASSUME NEW o \in Owners, RemoveDirectory(o) PROVE DirectoriesInv'
  BY <1>5 DEF RemoveDirectory
<1>6. CASE UNCHANGED tempVars
  BY <1>6 DEF tempVars
<1> HIDE DEF DirectoriesInv
<1> QED
  BY <1>1, <1>2, <1>3, <1>4, <1>5, <1>6 DEF TempNext

LEMMA DirectoriesInvariance == TempSpec => []DirectoriesInv
BY DirectoriesInitInv, DirectoriesNextInv, PTL DEF TempSpec

-----------------------------------------------------------------------------
\* However many owners draw whichever names at the same time: a directory has one owner, and
\* nobody else's files are in it.
THEOREM EachIsOwnedByOne == TempSpec => []DirectoriesAreOwned
<1>1. DirectoriesInv => DirectoriesAreOwned
  BY DEF DirectoriesInv
<1> QED
  BY <1>1, DirectoriesInvariance, PTL

\* Only directories that have been emptied are removed, and by their owners.
THEOREM NoFileIsLost == TempSpec => RemovesEmptyOnes
<1>1. DirectoriesInv /\ [TempNext]_tempVars
        => [\A d \in DOMAIN exists : d \notin DOMAIN exists' => exists[d] = {}]_tempVars
  <2> SUFFICES ASSUME DirectoriesInv, [TempNext]_tempVars, NEW d \in DOMAIN exists, d \notin DOMAIN exists'
               PROVE  exists[d] = {}
    OBVIOUS
  <2>1. PICK o \in Owners : RemoveDirectory(o)
    BY DEF TempNext, tempVars, Attempt, Create, GiveUp, PutFile, RemoveContents
  <2> QED
    BY <2>1 DEF RemoveDirectory, DirectoriesInv, EmptiedStaysEmpty
<1> QED
  BY <1>1, DirectoriesInvariance, PTL DEF TempSpec, RemovesEmptyOnes
=============================================================================
