-------------------------------- MODULE Files --------------------------------
(***************************************************************************)
(* A file written by a FileWriter and read by a FileReader at the same or  *)
(* at another time (io/file-writer.hpp, file-reader.hpp), and the          *)
(* containers that serialization.hpp writes to it.  The file is a sequence *)
(* of units; a count and an element take one unit each.                    *)
(*                                                                         *)
(* stdio is external: what is written reaches the file (disk) in order and *)
(* at some time, at the latest when the handle is closed; what is read may *)
(* have been buffered by an earlier call, before the file was changed; and *)
(* any call may fail.  A reading position may lie beyond the end.          *)
(*                                                                         *)
(* The writer may do anything between two calls of a reader to stdio.  It  *)
(* shows in those of which the second one goes by what the first has read: *)
(* they are two steps, and all other calls of FileReader one.              *)
(***************************************************************************)
EXTENDS Integers, Sequences, SequencesExt

CONSTANTS Units,      \* what the containers hold: natural numbers, as counts are
          MaxElements, MaxFile

ASSUME FilesAssumption == Units \subseteq Nat /\ MaxElements \in Nat /\ MaxFile \in Nat

VARIABLES
  disk, written, saved,   \* the file, what was written to it, and the containers that were
  writer, reader,         \* handles; position 0 is before the first unit
  doing,                  \* what the reader has read or asked for in the midst of a call
  last                    \* of a call that promises something, right after it has returned:
                          \* where it began and what it gave

fileVars == <<disk, written, saved, writer, reader, doing, last>>

Containers == UNION {[1 .. n -> Units] : n \in 0 .. MaxElements}
Closed == [open |-> FALSE]
Nothing == [call |-> "none"]

FileInit ==
  /\ disk = <<>> /\ written = <<>> /\ saved = <<>>
  /\ writer = Closed /\ reader = Closed /\ doing = Nothing /\ last = Nothing

\* Where the j-th of chunks that were saved begins in the file.
BeginOf(chunks, j) ==
  LET begin[i \in 1 .. Len(chunks) + 1] == IF i = 1 THEN 0 ELSE (begin[i - 1] + 1) + Len(chunks[i - 1])
  IN  begin[j]

-----------------------------------------------------------------------------
(* Plausible mistakes, to stand in for the definition they misspell. *)

\* read is content with what there is.
AcceptsLess(m, n) == m <= n

-----------------------------------------------------------------------------
(* stdio, of a reader r: its position, whether it has met the end or an error, and which units of *)
(* the file it has buffered (seen).                                                               *)

\* As long as the units that the reader has are those of the file it is given what the file has.
\* Once some of them change or go it is outdated: it is given units of the old content or of the
\* new one, as many as there are of either, which may be any; what it has is not kept any more.
FileBecomes(content) ==
  LET has == reader.seen \cup IF doing.call = "from_file" THEN {doing.at + 1} ELSE {}
      outdates == reader.open /\ ~reader.outdated /\ \E k \in has : k \notin DOMAIN content \/ content[k] # disk[k]
  IN  /\ disk' = content /\ UNCHANGED doing
      /\ reader' = IF outdates THEN [reader EXCEPT !.outdated = TRUE, !.seen = {}] ELSE reader

\* A part of the file around the position may be buffered, or none.
Buffers(r, pos) ==
  {{}} \cup IF r.outdated THEN {} ELSE {from .. to : from \in 1 .. pos + 1, to \in pos .. Len(disk)}

\* fread can deliver m units; of n units it delivers all there are before the end.
CanGive(r, m) == m = 0 \/ (~r.eof /\ r.pos + m <= IF r.outdated THEN MaxFile ELSE Len(disk))
Gives(r, n, m) == CanGive(r, m) /\ (m = n \/ r.outdated \/ ~CanGive(r, m + 1))
Given(r, m) == IF r.outdated THEN [1 .. m -> Units \cup 0 .. MaxElements]
               ELSE {SubSeq(disk, r.pos + 1, r.pos + m)}

\* The reader after m of n units: buffered ones do not need the file.
Behind(r, n, m) ==
  {[r EXCEPT !.pos = @ + m, !.eof = m < n, !.seen = s] :
     s \in IF m = n /\ r.pos + 1 .. r.pos + m \subseteq r.seen THEN {r.seen} ELSE Buffers(r, r.pos + m)}

\* An error may come after any of them; it stays with the handle.
Failed(r, n) ==
  {[s EXCEPT !.err = TRUE, !.eof = r.eof] : s \in UNION {Behind(r, n, m) : m \in {m \in 0 .. n : CanGive(r, m)}}}
Fread(r, n) == Failed(r, n) \cup UNION {Behind(r, n, m) : m \in {m \in 0 .. n : Gives(r, n, m)}}

\* fseek forgets about the end; it keeps the buffer only if the position lies in it.
Sought(r, pos) ==
  {[r EXCEPT !.pos = pos, !.eof = FALSE, !.seen = s] :
     s \in Buffers(r, pos) \cup IF {pos, pos + 1} \cap r.seen # {} THEN {r.seen} ELSE {}}

-----------------------------------------------------------------------------
(* FileWriter *)

OpenWriter ==
  /\ ~writer.open
  /\ writer' = [open |-> TRUE, pos |-> 0]
  /\ written' = <<>> /\ saved' = <<>> /\ last' = Nothing
  /\ FileBecomes(<<>>)

\* What fwrite and fseek make of a content: overwritten at the position, with no gap here.
Overwritten(content, pos, units) ==
  SubSeq(content, 1, pos) \o units \o SubSeq(content, pos + Len(units) + 1, Len(content))

WriteUnits(units) ==
  /\ writer.open /\ writer.pos + Len(units) <= MaxFile
  /\ written' = Overwritten(written, writer.pos, units)
  /\ writer' = [writer EXCEPT !.pos = @ + Len(units)]

SeekWriter(pos) ==
  /\ writer.open /\ pos \in 0 .. Len(written)
  /\ writer' = [writer EXCEPT !.pos = pos]
  /\ last' = Nothing /\ UNCHANGED <<disk, written, saved, reader, doing>>

\* The file has the chunks that were saved and these; or others once some were overwritten.
Saves(cs) ==
  saved' = IF writer.pos = Len(written) /\ writer.pos = BeginOf(saved, Len(saved) + 1)
           THEN saved \o cs ELSE <<>>

\* to_file of a TypedChunk or of multi-byte integers: the count, then the elements
SaveChunk(c) ==
  /\ WriteUnits(<<Len(c)>> \o c)
  /\ Saves(<<c>>)
  /\ last' = Nothing /\ UNCHANGED <<disk, reader, doing>>

\* to_file of a NestedDynamicArray: its offsets, then its values
SaveNested(offsets, values) ==
  /\ WriteUnits(<<Len(offsets)>> \o offsets \o <<Len(values)>> \o values)
  /\ Saves(<<offsets, values>>)
  /\ last' = Nothing /\ UNCHANGED <<disk, reader, doing>>

\* The buffer is flushed, fully or up to a point.
Flush(n) ==
  /\ writer.open /\ disk # written
  /\ n = Len(written) \/ (IsPrefix(disk, written) /\ n \in Len(disk) .. Len(written))
  /\ FileBecomes(SubSeq(written, 1, n)) /\ last' = Nothing
  /\ UNCHANGED <<written, saved, writer>>

\* The destructor: the result of fclose is not looked at, so what is buffered may be lost.
CloseWriter ==
  /\ writer.open
  /\ writer' = Closed
  /\ \E content \in {disk, written} : FileBecomes(content)
  /\ last' = Nothing
  /\ UNCHANGED <<written, saved>>

-----------------------------------------------------------------------------
(* FileReader *)

OpenReader ==
  /\ ~reader.open
  /\ reader' = [open |-> TRUE, pos |-> 0, eof |-> FALSE, err |-> FALSE, seen |-> {}, outdated |-> FALSE]
  /\ last' = Nothing
  /\ UNCHANGED <<disk, written, saved, writer, doing>>

CloseReader ==
  /\ reader.open /\ doing = Nothing
  /\ reader' = Closed /\ last' = Nothing
  /\ UNCHANGED <<disk, written, saved, writer, doing>>

\* The first step of a call, with what the second one goes by.
Begins(call, left) ==
  /\ doing' = [call |-> call, at |-> reader.pos, left |-> left] /\ last' = Nothing
  /\ UNCHANGED <<disk, written, saved, writer>>

Returns(call, at, got) ==
  /\ last' = [call |-> call, at |-> at, got |-> got] /\ doing' = Nothing
  /\ UNCHANGED <<disk, written, saved, writer>>

\* A call of which nothing is remembered, such as one that throws.
Moves(readers) ==
  /\ reader' \in readers /\ last' = Nothing /\ doing' = Nothing
  /\ UNCHANGED <<disk, written, saved, writer>>

\* try_read, which throws once the handle has met an error, and read, which throws when it got less.
Read(n) == Moves(Fread(reader, n))
Accepts(m, n) == m = n

SeekReader(pos) == Moves({reader} \cup Sought(reader, pos))

\* tell, seek, try_read and seek back; a step that throws leaves the position where it is.
\* pread throws when it got less, having gone back.
BackAfter(n, offset) == reader' \in Sought(reader, reader.pos)
TryPread(n, offset) ==
  \/ ~reader.err /\ Returns("try_pread", reader.pos, <<>>) /\ BackAfter(n, offset)
  \/ Moves({reader} \cup UNION {{r} \cup Fread(r, n) : r \in Sought(reader, offset)})

\* size: to the end and back
SizeThrows == Moves({reader} \cup Sought(reader, Len(disk)))
Size ==
  \/ Returns("size", reader.pos, <<>>) /\ reader' \in Sought(reader, reader.pos)
  \/ SizeThrows

\* read_full: the size, then what there is of it by now
AskFull ==
  \/ reader.pos = 0 /\ Begins("read_full", Len(disk)) /\ reader' \in Sought(reader, 0)
  \/ IF reader.pos = 0 THEN SizeThrows ELSE Moves({reader})
ReadFull == doing.call = "read_full" /\ Moves({reader} \cup Fread(reader, doing.left))

\* from_file: the count, then a container of that size, which may not be had, and its elements
LoadCount ==
  \/ /\ Gives(reader, 1, 1) /\ reader' \in Behind(reader, 1, 1)
     /\ \E count \in Given(reader, 1) : Begins("from_file", count[1])
  \/ Moves(Fread(reader, 1))
Load ==
  /\ doing.call = "from_file"
  /\ \/ \E m \in 0 .. doing.left :
          /\ Gives(reader, doing.left, m) /\ Accepts(m, doing.left)
          /\ reader' \in Behind(reader, doing.left, m)
          /\ \E got \in Given(reader, m) : Returns("from_file", doing.at, got)
     \/ Moves({reader} \cup Fread(reader, doing.left))

FileNext ==
  \/ OpenWriter \/ CloseWriter \/ OpenReader \/ CloseReader
  \/ \E c \in Containers : SaveChunk(c) \/ \E d \in Containers : SaveNested(c, d)
  \/ \E n \in 0 .. MaxFile : SeekWriter(n) \/ Flush(n)
  \/ ReadFull \/ Load
  \/ /\ reader.open /\ doing = Nothing
     /\ \/ Size \/ AskFull \/ LoadCount
        \/ \E offset \in 0 .. MaxFile :
             SeekReader(offset) \/ \E n \in 1 .. MaxElements : Read(n) \/ TryPread(n, offset)

FileSpec == FileInit /\ [][FileNext]_fileVars

-----------------------------------------------------------------------------
\* What was saved comes back from where it was written, or from_file throws: a file of which the
\* end is missing never gives another container, whatever is appended, flushed or lost between the
\* steps of from_file and whatever is buffered, unless the reader is outdated.  And a call that reads
\* elsewhere leaves the position where it was, unless stdio fails.
FilesGiveBack ==
  /\ last.call = "from_file" /\ ~reader.outdated =>
       \A j \in 1 .. Len(saved) : BeginOf(saved, j) = last.at => last.got = saved[j]
  /\ last.call \in {"try_pread", "size"} => reader.pos = last.at
=============================================================================
