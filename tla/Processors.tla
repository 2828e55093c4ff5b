------------------------------ MODULE Processors ------------------------------
(***************************************************************************)
(* The processors of a machine as CpuInfo (resources/cpu-info.hpp) has     *)
(* them from what each operating system tells, which of them stand for a   *)
(* core, how they are divided among parts of a program, and the sets of    *)
(* processors that threads are pinned to (execution/system/affinity.hpp).  *)
(* A result is a set: {} when an exception is thrown, {v} when it is v.    *)
(***************************************************************************)
EXTENDS Integers, Sequences, FiniteSets, FiniteSetsExt, SequencesExt

CONSTANT MaxCpu  \* processors are 0 .. MaxCpu

Segment == INSTANCE IndexSegmentation WITH ValueMod <- 2 ^ 8, IntMax <- 2 ^ 7 - 1

Thrown == {}
Unless(throws, v) == IF throws THEN Thrown ELSE {v}
Count(result) == {Len(cpus) : cpus \in result}
Total(s) == FoldLeft(LAMBDA a, b : a + b, 0, s)

Efficiency == <<"any", "efficiency", "medium", "performance">>
Rank(class) == CHOOSE i \in DOMAIN Efficiency : Efficiency[i] = class

-----------------------------------------------------------------------------
(* Linux: files that list processors, each entry <<i>> or <<first, last>>; <<>> is no file. *)

CpuRange(text) ==
  FlattenSeq([i \in DOMAIN text |-> [j \in 1 .. text[i][Len(text[i])] - text[i][1] + 1 |-> text[i][1] + j - 1]])
ReadRange(text) == Unless(text = <<>>, CpuRange(text))

CoreCpus(s, cpu) == ReadRange(s.siblings[cpu])
Linux(s, class) ==
  CASE class = "any" -> ReadRange(s.present)
    [] class = "efficiency" -> ReadRange(IF s.atom # <<>> THEN s.atom ELSE s.present)
    [] class = "performance" -> ReadRange(IF s.core # <<>> THEN s.core ELSE s.present)
    [] OTHER -> Thrown
LinuxPhysical(s, class) ==
  LET StandsForCore(cpu) == \E siblings \in CoreCpus(s, cpu) : cpu = Min(ToSet(siblings))
  IN  {SelectSeq(cpus, StandsForCore) : cpus \in {cs \in Linux(s, class) : \A cpu \in ToSet(cs) : CoreCpus(s, cpu) # Thrown}}

\* physical_part, of all operating systems: the part i of n
PhysicalPart(physical, i, n) ==
  {LET start == Segment!UniformStart(Len(cpus), n, i)
   IN  SubSeq(cpus, start + 1, Segment!UniformStart(Len(cpus), n, i + 1)) : cpus \in physical}

-----------------------------------------------------------------------------
(* Apple: performance levels, or the entries of the IO registry, and two totals. *)

LevelClass(name, levels) ==
  CASE name = "Super" -> {"performance"}
    [] name = "Performance" -> IF \E i \in DOMAIN levels : levels[i].name = "Super" THEN {"medium"} ELSE {"performance"}
    [] name = "Efficiency" -> {"efficiency"}
    [] OTHER -> Thrown
ReadPerfLevels(s) ==
  LET levels == SubSeq(s.levels, 1, Min({4, Len(s.levels)}))
      Class(i) == LevelClass(levels[i].name, levels)
      known == [i \in DOMAIN levels |->
                  [class |-> CHOOSE c \in Class(i) : TRUE, logical |-> levels[i].logical, physical |-> levels[i].physical]]
  IN  IF levels = <<>> \/ \E i \in DOMAIN levels : Class(i) = Thrown THEN Thrown
      ELSE {SortSeq(known, LAMBDA a, b : Rank(a.class) < Rank(b.class))}

ClusterClass(byte) ==
  CASE byte = "E" -> "efficiency" [] byte = "M" -> "medium" [] byte = "P" -> "performance" [] OTHER -> "any"
\* Entries without a number among the processors' are passed over.
CpuTopology(s) ==
  LET entries == SelectSeq(s.registry, LAMBDA entry : entry.id \in 0 .. s.logical - 1)
      sorted == SortSeq([i \in DOMAIN entries |-> [id |-> entries[i].id, class |-> ClusterClass(entries[i].type)]],
                        LAMBDA a, b : a.id < b.id)
  IN  Unless(\/ s.logical = 0 \/ entries = <<>> \/ Len(entries) # s.logical
             \/ \E i \in DOMAIN sorted : sorted[i].id # i - 1, sorted)

\* Processors are numbered through the levels, from the least efficient class to the fastest.
AppleLogical(s) ==
  IF s.iokit THEN CpuTopology(s)
  ELSE {LET classes == FlattenSeq([i \in DOMAIN levels |-> [j \in 1 .. levels[i].logical |-> levels[i].class]])
        IN  [k \in DOMAIN classes |-> [id |-> k - 1, class |-> classes[k]]] :
        levels \in {ls \in ReadPerfLevels(s) : Total([i \in DOMAIN ls |-> ls[i].logical]) = s.logical}}
Apple(s, class) ==
  IF class = "any" THEN AppleLogical(s)
  ELSE {SelectSeq(infos, LAMBDA info : info.class = class) : infos \in AppleLogical(s)}
ApplePhysical(s, class) == IF s.logical # s.physical THEN Thrown ELSE Apple(s, class)

OfClass(levels, class) == SelectSeq(levels, LAMBDA level : level.class = class)
AppleNumLogical(s, class) ==
  CASE class = "any" -> {s.logical}
    [] s.iokit /\ class # "any" -> Count(Apple(s, class))
    [] OTHER -> {LET of == OfClass(levels, class) IN Total([i \in DOMAIN of |-> of[i].logical]) : levels \in ReadPerfLevels(s)}
AppleNumPhysical(s, class) ==
  CASE s.logical # s.physical -> Thrown
    [] s.logical = s.physical /\ class = "any" -> {s.physical}
    [] s.logical = s.physical /\ class # "any" /\ s.iokit -> AppleNumLogical(s, class)
    [] OTHER -> {LET of == OfClass(levels, class) IN Total([i \in DOMAIN of |-> of[i].physical]) :
                 levels \in {ls \in ReadPerfLevels(s) : Total([i \in DOMAIN ls |-> ls[i].physical]) = s.physical}}

-----------------------------------------------------------------------------
(* Windows: a list of records, not all of which are processors. *)

WindowsLogical(s) == SelectSeq(s.records, LAMBDA r : r.cpu)
Windows(s, class) ==
  LET infos == WindowsLogical(s)
      classes == {infos[i].efficiency : i \in DOMAIN infos}
      Selected(c) == SelectSeq(infos, LAMBDA info : info.efficiency = c) IN
  CASE class = "any" -> {infos}
    [] class # "any" /\ (classes = {} \/ Cardinality(classes) > 2) -> Thrown
    [] class = "efficiency" -> {Selected(Min(classes))}
    [] class = "performance" -> {Selected(Max(classes))}
    [] OTHER -> Thrown
WindowsPhysical(s, class) == {SelectSeq(infos, LAMBDA info : info.index = info.core) : infos \in Windows(s, class)}

-----------------------------------------------------------------------------
(* CpuSet; pinning the threads of a pool *)

AddCpu(os, set, cpu) ==
  CASE os = "Linux" -> SetToSortSeq(ToSet(set) \cup {cpu}, LAMBDA a, b : a < b)
    [] os = "Apple" -> <<cpu>>
    [] os = "Windows" -> IF cpu \in ToSet(set) THEN set ELSE Append(set, cpu)
NoCpus(os) == IF os = "Apple" THEN <<-1>> ELSE <<>>
FromCpuInfos(os, cpus) == FoldLeft(LAMBDA set, cpu : AddCpu(os, set, cpu), NoCpus(os), cpus)
SingleSet(os, cpu) == AddCpu(os, NoCpus(os), cpu)

\* Thread t gets the set t, counted from 0, if there are enough of them.
PinnedTo(os, size, cpus) ==
  Unless(size > Len(cpus), [t \in 0 .. size - 1 |-> SingleSet(os, cpus[t + 1])])

-----------------------------------------------------------------------------
Cpus == 0 .. MaxCpu
Ascending(set) == SetToSortSeq(set, LAMBDA a, b : a < b)

\* How the kernel lists a set of processors
ListOf(set) ==
  LET firsts == Ascending({c \in set : c - 1 \notin set})
      LastFrom(c) == Min({d \in set : d >= c /\ d + 1 \notin set})
  IN  [i \in DOMAIN firsts |-> IF LastFrom(firsts[i]) = firsts[i] THEN <<firsts[i]>>
                               ELSE <<firsts[i], LastFrom(firsts[i])>>]

\* Two cores, of two kinds if the machine is hybrid; a processor that is offline has no topology.
LinuxMachines ==
  {<<"linux", core, hybrid, off>> : core \in UNION {[present -> 0..1] : present \in SUBSET Cpus \ {{}}},
                                    hybrid \in BOOLEAN, off \in {{}, {MaxCpu}}}
LinuxSystem(core, hybrid, off) ==
  [present |-> ListOf(DOMAIN core),
   core |-> IF hybrid THEN ListOf({c \in DOMAIN core : core[c] = 0}) ELSE <<>>,
   atom |-> IF hybrid THEN ListOf({c \in DOMAIN core : core[c] = 1}) ELSE <<>>,
   siblings |-> [c \in DOMAIN core |-> IF c \in off THEN <<>> ELSE ListOf({d \in DOMAIN core \ off : core[d] = core[c]})]]

LevelNames == {"Super", "Performance", "Efficiency", "Unknown"}
Levels == {[name |-> name, logical |-> l, physical |-> p] : name \in LevelNames, l \in 0..2, p \in 1..2}
Distinct(s) == \A i, j \in DOMAIN s : i # j => s[i].name # s[j].name
Entries == [id : {-1, 0, 1, 2}, type : {"E", "M", "P", "?"}]
AppleMachines ==
  {<<"apple", [iokit |-> FALSE, levels |-> ls, registry |-> <<>>, logical |-> l, physical |-> p]>> :
     ls \in {ls \in BoundedSeq(Levels, 2) : Distinct(ls) /\ \A i \in DOMAIN ls : ls[i].physical <= ls[i].logical},
     l \in 0..4, p \in 1..4}
  \cup {<<"apple", [iokit |-> TRUE, levels |-> <<>>, registry |-> es, logical |-> l, physical |-> l]>> :
          es \in BoundedSeq(Entries, 3), l \in 0..3}

\* The records of a machine with one or two threads on each core, with another record in between
WindowsMachines ==
  {<<"windows", threads, kinds, at>> : threads \in BoundedSeq(1..2, 3), kinds \in [1..3 -> 0..2], at \in 0..2}
WindowsSystem(threads, kinds, at) ==
  LET First(core) == Total(SubSeq(threads, 1, core - 1))
      cpus == FlattenSeq([core \in DOMAIN threads |-> [j \in 1 .. threads[core] |->
                [cpu |-> TRUE, id |-> 100 + First(core) + j, index |-> First(core) + j - 1, core |-> First(core),
                 efficiency |-> kinds[core]]]])
      other == [cpu |-> FALSE, id |-> 0, index |-> 0, core |-> 0, efficiency |-> 0]
  IN  [records |-> IF at <= Len(cpus) THEN InsertAt(cpus, at + 1, other) ELSE cpus]

ProcessorQuestions == LinuxMachines \cup AppleMachines \cup WindowsMachines
                        \cup {<<"set", cpus>> : cpus \in BoundedSeq(Cpus, 3)}

Ids(result) == {[i \in DOMAIN infos |-> infos[i].id] : infos \in result}

\* The parts follow each other and make the whole, and no two of their threads share a core.
PartsMakeAll(os, physical) ==
  \A cpus \in physical : \A n \in 1..3 :
    /\ FlattenSeq([i \in 1..n |-> CHOOSE part \in PhysicalPart(physical, i - 1, n) : TRUE]) = cpus
    /\ \A pinned \in PinnedTo(os, n, cpus) :
         Len(cpus) >= n /\ \A t, u \in DOMAIN pinned : t # u => ToSet(pinned[t]) \cap ToSet(pinned[u]) = {}

\* Every core of the class is there once, by its first processor; one that is offline is an error.
LinuxRight(core, hybrid, off) ==
  LET s == LinuxSystem(core, hybrid, off)
      In(class) == {c \in DOMAIN core : \/ class = "any" \/ ~hybrid
                                        \/ core[c] = 0 /\ class = "performance"
                                        \/ core[c] = 1 /\ class = "efficiency"}
      Whole(class) == IF In(class) = {} THEN DOMAIN core ELSE In(class) IN
  /\ Linux(s, "medium") = Thrown
  /\ \A class \in {"any", "efficiency", "performance"} :
       /\ Linux(s, class) = {Ascending(Whole(class))}
       /\ LinuxPhysical(s, class) =
            IF Whole(class) \cap off # {} THEN Thrown
            ELSE {Ascending({c \in Whole(class) : \A d \in DOMAIN core \ off : core[d] = core[c] => c <= d})}
       /\ PartsMakeAll("Linux", LinuxPhysical(s, class))

\* Where processors can be listed, they are as many as are counted, unless counting the cores of a
\* class throws: the levels' cores have to add up for that, but not to list them.
AppleRight(s) ==
  /\ \A class \in ToSet(Efficiency) :
       /\ \A infos \in Apple(s, class) : AppleNumLogical(s, class) = {Len(infos)}
       /\ \A infos \in ApplePhysical(s, class) : AppleNumPhysical(s, class) \in {Thrown, {Len(infos)}}
       /\ PartsMakeAll("Apple", Ids(ApplePhysical(s, class)))
  /\ \A infos \in AppleLogical(s) :
       /\ Len(infos) = s.logical /\ \A i \in DOMAIN infos : infos[i].id = i - 1
       /\ ~s.iokit => \A i, j \in DOMAIN infos : i < j => Rank(infos[i].class) <= Rank(infos[j].class)

\* One processor for each core of the class, the slowest and the fastest of at most two kinds.
WindowsRight(threads, kinds, at) ==
  LET s == WindowsSystem(threads, kinds, at)
      Kinds == {kinds[core] : core \in DOMAIN threads}
      Cores(kind) == Cardinality({core \in DOMAIN threads : kinds[core] = kind}) IN
  /\ Count(WindowsPhysical(s, "any")) = {Len(threads)}
  /\ Windows(s, "any") = {WindowsLogical(s)} /\ Count(Windows(s, "any")) = {Total(threads)}
  /\ Windows(s, "medium") = Thrown
  /\ Cardinality(Kinds) \in 1..2 => /\ Count(WindowsPhysical(s, "efficiency")) = {Cores(Min(Kinds))}
                                    /\ Count(WindowsPhysical(s, "performance")) = {Cores(Max(Kinds))}
  /\ Cardinality(Kinds) \notin 1..2 => Windows(s, "efficiency") = Thrown /\ Windows(s, "performance") = Thrown
  /\ \A class \in ToSet(Efficiency) : PartsMakeAll("Windows", Ids(WindowsPhysical(s, class)))

\* A set holds what has been put into it once; Apple's holds one processor, the last.
SetRight(cpus) ==
  /\ FromCpuInfos("Linux", cpus) = Ascending(ToSet(cpus))
  /\ ToSet(FromCpuInfos("Windows", cpus)) = ToSet(cpus) /\ IsInjective(FromCpuInfos("Windows", cpus))
  /\ FromCpuInfos("Apple", cpus) = <<IF cpus = <<>> THEN -1 ELSE Last(cpus)>>

ProcessorsRight(q) ==
  CASE q[1] = "linux" -> LinuxRight(q[2], q[3], q[4])
    [] q[1] = "apple" -> AppleRight(q[2])
    [] q[1] = "windows" -> WindowsRight(q[2], q[3], q[4])
    [] q[1] = "set" -> SetRight(q[2])
=============================================================================
