------------------------------- MODULE Library -------------------------------
(***************************************************************************)
(* A program that uses one of the parts of thesauros that neither run      *)
(* tasks nor manage the memory of objects: integers packed in bytes, a     *)
(* file that is written and read at once, temporary directories of several *)
(* owners, or a pure algorithm, which it asks one question.  part says     *)
(* which one it is; the variables of the others do not change.             *)
(***************************************************************************)
EXTENDS Files, TempDirectories

CONSTANTS ElementBytes, IntBytes, Padding, ByteBase,  \* of ByteIntegers
          MaxByteElements, Inputs, Digits,
          Digits2, Most8, MaxAxis, IndexWord,         \* of Numbers, Text and Indexing
          MaxList, EmptyAt, EnumValues,               \* of Variants and Reflection, which has the Names, too
          MaxCpu                                      \* of Processors

VARIABLES part,
          bytes, alloc, want, optional, outside,
          question

Byte == INSTANCE ByteIntegers WITH MaxElements <- MaxByteElements
Number == INSTANCE Numbers
Texts == INSTANCE Text
Index == INSTANCE Indexing
Kind == INSTANCE Variants
Reflected == INSTANCE Reflection WITH Values <- EnumValues
Machine == INSTANCE Processors

ASSUME ByteAssumption ==
  ElementBytes <= IntBytes /\ IntBytes <= Padding /\ Inputs \subseteq 0 .. Byte!Mask

byteOnly == <<bytes, alloc, want, optional, outside>>
libraryVars == <<part, byteOnly, fileVars, tempVars, question>>

Unused == <<>>
NoBytes == bytes = Unused /\ alloc = Unused /\ want = Unused /\ optional = Unused /\ outside = Unused
NoTemp == exists = [d \in {} |-> {}] /\ TempInit

\* The file and the directories are there in every part; they stay what they are in the others.
LibraryInit ==
  /\ FileInit /\ question = Unused
  /\ \/ part = "bytes" /\ Byte!ByteInit /\ NoTemp
     \/ part = "files" /\ NoBytes /\ NoTemp
     \/ part = "directories" /\ NoBytes /\ TempInit
     \/ /\ part \in {"numbers", "texts", "indices", "lists", "variants", "reflection", "processors"}
        /\ NoBytes /\ NoTemp

Questions ==
  CASE part = "numbers" -> Number!NumberQuestions
    [] part = "texts" -> Texts!TextQuestions
    [] part = "indices" -> Index!IndexQuestions
    [] part = "lists" -> Kind!ListQuestions
    [] part = "variants" -> Kind!VariantQuestions
    [] part = "reflection" -> Reflected!ReflectionQuestions
    [] part = "processors" -> Machine!ProcessorQuestions

Ask ==
  /\ part \notin {"bytes", "files", "directories"} /\ question = Unused
  /\ question' \in Questions
  /\ UNCHANGED <<part, byteOnly, fileVars, tempVars>>

LibraryNext ==
  \/ part = "bytes" /\ Byte!ByteNext /\ UNCHANGED <<part, fileVars, tempVars, question>>
  \/ part = "files" /\ FileNext /\ UNCHANGED <<part, byteOnly, tempVars, question>>
  \/ part = "directories" /\ TempNext /\ UNCHANGED <<part, byteOnly, fileVars, question>>
  \/ Ask

LibrarySpec == LibraryInit /\ [][LibraryNext]_libraryVars

-----------------------------------------------------------------------------
\* Integers packed in bytes have the values last given to them, whatever their neighbours and the
\* paddings have gone through, forwards, backwards and through a view.
PackedIntegersHold == part = "bytes" => Byte!BytesHoldElements

\* Arithmetic, casts, factors, tiles, random permutations; numbers, codepoints and escapes in texts;
\* positions, products, boxes, ranges and tiles; the processors of a machine, its cores and their
\* parts: what each algorithm computes step by step is what is said of it as a whole, up to the ends
\* of its types.
ConversionsAreRight ==
  /\ part = "numbers" /\ question # Unused => Number!NumberRight(question)
  /\ part = "texts" /\ question # Unused => Texts!TextRight(question)
  /\ part = "indices" /\ question # Unused => Index!IndexRight(question)
  /\ part = "processors" /\ question # Unused => Machine!ProcessorsRight(question)

\* Lists of values and of types, variants and optional values, and what a type knows of its members:
\* what the definitions say element by element is what is said of the whole.
StaticsAreRight ==
  /\ part = "lists" /\ question # Unused => Kind!ListRight(question)
  /\ part = "variants" /\ question # Unused => Kind!VariantRight(question)
  /\ part = "reflection" /\ question # Unused => Reflected!ReflectionRight(question)

\* As the comment on parse_integer says of a text that is not a valid literal, which is one without
\* digits, with another character, or with a sign for an unsigned type: it gives nullopt.
InvalidGivesNullopt ==
  part = "texts" /\ question # Unused /\ question[1] = "number" =>
    \A signed \in BOOLEAN :
      ~Texts!IsLiteral(question[2], question[3], signed) =>
        Texts!ParseInteger(question[2], question[3], signed) = Texts!Absent
=============================================================================
