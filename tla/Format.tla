------------------------------- MODULE Format -------------------------------
(***************************************************************************)
(* assembleSnapshot of format.ts: the offsets of a snapshot's sections,    *)
(* and the bytes set at them.                                              *)
(*                                                                         *)
(* A snapshot is a header of fixed length, the section table, the manifest *)
(* and then the sections, each at a multiple of 8.  `offset` is a double   *)
(* to which lengths are added, but alignUp masks it, which makes it a      *)
(* signed 32-bit integer; the table holds unsigned ones.                   *)
(*                                                                         *)
(* Abstractions.  What a field emits is the lengths of its sections; the   *)
(* manifest is its length.  Bytes are not followed: `table` says which     *)
(* ones each section was set at, and properties compare the regions.       *)
(***************************************************************************)
EXTENDS Integers, Sequences

CONSTANTS
    Half,       \* 2^31
    Emissions   \* what builders emit: [tag, manifest, sections]

\* Unsigned 32-bit integers are below it.
Width == 2 * Half

SECTION_ALIGN == 8
FIXED_HEADER_BYTES == 32

ASSUME HalfAssumption == Half \in Nat /\ Half % 8 = 0 /\ Half > 64
\* A schema has a string table, which emits sections (schema.ts:72-79).
ASSUME EmissionsAssumption ==
    \A e \in Emissions :
        e.manifest \in Nat /\ e.sections \in Seq(Nat) /\ e.sections # <<>>

VARIABLES
    emitted,    \* the emission that is assembled
    phase,      \* "idle", "layout", "write", "assembled" or "refused"
    offset,     \* where the next section may start
    table,      \* sectionTable: [offset, length]
    size,       \* how much was allocated
    written,    \* how many sections are set in it
    start,      \* history: where each section starts, counted without bound
    total       \* history: offset, counted without bound

history == <<start, total>>
formatVars == <<emitted, phase, offset, table, size, written, history>>

----------------------------------------------------------------------------

ToInt32(n) == IF n % Width < Half THEN n % Width ELSE (n % Width) - Width
ToUint32(n) == n % Width

Floor8(n) == n - (n % SECTION_ALIGN)

\* mutant: aligned to 4 bytes.
AlignUpToWords(n) == ToInt32(n + 3) - (ToInt32(n + 3) % 4)

\* (n + 7) & ~7
AlignUp(n) == Floor8(ToInt32(n + (SECTION_ALIGN - 1)))

Count == Len(emitted.sections)
TableEnd == FIXED_HEADER_BYTES + Count * 8
ManifestEnd == TableEnd + emitted.manifest

Nothing == [tag |-> "none", manifest |-> 0, sections |-> <<>>]

FormatInit ==
    /\ emitted = Nothing
    /\ phase = "idle"
    /\ offset = 0
    /\ table = <<>>
    /\ size = 0
    /\ written = 0
    /\ start = <<>>
    /\ total = 0

----------------------------------------------------------------------------

\* assembleSnapshot up to the loop over the sections.
Assemble(e) ==
    /\ phase = "idle"
    /\ emitted' = e
    /\ phase' = "layout"
    /\ offset' = AlignUp(ManifestEnd')
    /\ total' = Floor8(ManifestEnd' + 7)
    /\ UNCHANGED <<table, size, written, start>>

NextLength == emitted.sections[Len(table) + 1]

\* mutant: sections follow each other without padding.
LaySectionPacked ==
    /\ phase = "layout"
    /\ Len(table) < Count
    /\ table' = Append(table, [offset |-> ToUint32(offset), length |-> ToUint32(NextLength)])
    /\ offset' = offset + NextLength
    /\ start' = Append(start, total)
    /\ total' = total + NextLength
    /\ UNCHANGED <<emitted, phase, size, written>>

\* One turn of the loop.
LaySection ==
    /\ phase = "layout"
    /\ Len(table) < Count
    /\ table' = Append(table, [offset |-> ToUint32(AlignUp(offset)),
                               length |-> ToUint32(NextLength)])
    /\ offset' = AlignUp(offset) + NextLength
    /\ start' = Append(start, Floor8(total + 7))
    /\ total' = Floor8(total + 7) + NextLength
    /\ UNCHANGED <<emitted, phase, size, written>>

LaidOut == phase = "layout" /\ Len(table) = Count

Refuse ==
    /\ phase' = "refused"
    /\ UNCHANGED <<emitted, offset, table, size, written, history>>

\* FormatError: more than 4 GiB.
RefuseLarge == LaidOut /\ offset > Width - 1 /\ Refuse

\* new ArrayBuffer of a negative length, a RangeError.
RefuseNegative == LaidOut /\ offset < 0 /\ Refuse

\* mutant: the limit is not checked.
AllocateAny ==
    /\ LaidOut
    /\ offset >= 0
    /\ phase' = "write"
    /\ size' = offset
    /\ UNCHANGED <<emitted, offset, table, written, history>>

Allocate ==
    /\ LaidOut
    /\ offset \in 0 .. Width - 1
    /\ phase' = "write"
    /\ size' = offset
    /\ UNCHANGED <<emitted, offset, table, written, history>>

\* The header, the table or the manifest does not fit: a RangeError.
RefuseHeader == phase = "write" /\ written = 0 /\ ManifestEnd > size /\ Refuse

NextFits == table[written + 1].offset + emitted.sections[written + 1] <= size

\* bytes.set past the end, a RangeError.
RefuseSection ==
    /\ phase = "write"
    /\ ManifestEnd <= size
    /\ written < Count
    /\ ~NextFits
    /\ Refuse

WriteSection ==
    /\ phase = "write"
    /\ ManifestEnd <= size
    /\ written < Count
    /\ NextFits
    /\ written' = written + 1
    /\ UNCHANGED <<emitted, phase, offset, table, size, history>>

Assembled ==
    /\ phase = "write"
    /\ ManifestEnd <= size
    /\ written = Count
    /\ phase' = "assembled"
    /\ UNCHANGED <<emitted, offset, table, size, written, history>>

\* The caller has the bytes, or the error.
Leave ==
    /\ phase \in {"assembled", "refused"}
    /\ emitted' = Nothing
    /\ phase' = "idle"
    /\ offset' = 0
    /\ table' = <<>>
    /\ size' = 0
    /\ written' = 0
    /\ start' = <<>>
    /\ total' = 0

FormatSteps ==
    \/ LaySection
    \/ RefuseLarge
    \/ RefuseNegative
    \/ Allocate
    \/ RefuseHeader
    \/ RefuseSection
    \/ WriteSection
    \/ Assembled

FormatNext == (\E e \in Emissions : Assemble(e)) \/ FormatSteps \/ Leave

FormatSpec == FormatInit /\ [][FormatNext]_formatVars

----------------------------------------------------------------------------

(* The state is of its type.                                               *)
FormatTypeOK ==
    /\ emitted \in Emissions \cup {Nothing}
    /\ phase \in {"idle", "layout", "write", "assembled", "refused"}
    /\ offset \in Int
    /\ table \in Seq([offset : 0 .. Width - 1, length : 0 .. Width - 1])
    /\ Len(table) <= Count
    /\ phase \in {"write", "assembled"} => Len(table) = Count
    /\ size \in 0 .. Width - 1
    /\ written \in 0 .. Count
    /\ start \in Seq(Nat) /\ Len(start) = Len(table)
    /\ total \in Nat

\* No section of 2 GiB or more, or less than 4 GiB in all.
Moderate ==
    \/ \A i \in 1 .. Count : emitted.sections[i] < Half
    \/ total < Width

(* A snapshot that assembleSnapshot returns can be read back: each section *)
(* has a place of its own behind the manifest, at a multiple of 8, inside  *)
(* the buffer, and the table gives its length.  Offsets that wrapped round *)
(* must end in an error, not in sections that lie on each other            *)
(* (format.ts:17, 71-90, 105-110).                                         *)
SectionsApart ==
    phase = "assembled" /\ Moderate =>
        \A i \in 1 .. Count :
            /\ table[i].length = emitted.sections[i]
            /\ table[i].offset % SECTION_ALIGN = 0
            /\ table[i].offset >= ManifestEnd
            /\ table[i].offset + table[i].length <= size
            /\ \A j \in 1 .. i - 1 : table[j].offset + table[j].length <= table[i].offset

(* What README.md:472 and the error of format.ts:85-86 say: a snapshot may *)
(* take up to 4 GiB; only a larger one is refused.                         *)
CappedAtLimit == phase = "refused" => total > Width - 1
=============================================================================
