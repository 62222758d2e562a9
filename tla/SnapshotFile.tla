---------------------------- MODULE SnapshotFile ----------------------------
(***************************************************************************)
(* One snapshot file and the programs that use it: one that assembles      *)
(* snapshots and writes them in place (writeSnapshotFile, alone or as the  *)
(* write-back of openSnapshotFile), one that reads the file as a whole     *)
(* (readSnapshotFile, then Schema.open) or its head (readSnapshotHeader-   *)
(* File, then inspect).  io.ts has no lock and writes over the old bytes:  *)
(* the reader's stat and its reads interleave with the writer's truncation *)
(* and writes, and a crash of the writer leaves a part of a snapshot.      *)
(*                                                                         *)
(* Abstractions.  The bytes of a snapshot are the snapshot they belong to: *)
(* what a reader has is a sequence of pieces, each from one snapshot.  The *)
(* file is the first `disk.size` bytes of one.  A file is written and read *)
(* in pieces that end at a header, a table, a manifest, a section or in    *)
(* the middle of one of them: what a shorter piece would cut is cut by     *)
(* these.  Every snapshot read was written by assembleSnapshot, so its     *)
(* magic and its format version are right, and a part of a manifest is not *)
(* JSON.  One program writes at a time.                                    *)
(***************************************************************************)
EXTENDS Format

CONSTANTS
    FileTags,   \* bound: the snapshots that are written to the file
    MaxPieces   \* bound: from this piece on a read gets all there is

VARIABLES
    disk,       \* the file: the first `size` bytes of `snapshot`
    writing,    \* the writer has the file open, truncated
    reader,     \* where the reader is
    whole,      \* it reads the file, or its head only
    wanted,     \* the size that it is to read
    pieces,     \* what it has read: [end, of], one after the other
    served,     \* the sections it was given, as they are in the buffer
    overlapped  \* history: the writer was in the file since the reader's stat

readerVars == <<reader, whole, wanted, pieces, served, overlapped>>
vars == <<formatVars, disk, writing, readerVars>>

\* A snapshot in memory, once assembled.
Snapshot(e, t, n) == [emission |-> e, table |-> t, size |-> n]
Blank == Snapshot(Nothing, <<>>, 0)

HeadEnd(s) == FIXED_HEADER_BYTES + 8 * Len(s.emission.sections)
ManifestOf(s) == HeadEnd(s) + s.emission.manifest

\* bound: where a piece may end.
Cuts(s) ==
    LET ends == {s.table[i].offset + s.table[i].length : i \in DOMAIN s.table}
        inside == {HeadEnd(s) - 1, ManifestOf(s) - 1, s.size - 1}
    IN  {p \in {FIXED_HEADER_BYTES, ManifestOf(s)} \cup inside \cup ends : p \in 1 .. s.size}

Init ==
    /\ FormatInit
    /\ disk = [snapshot |-> Blank, size |-> 0]
    /\ writing = FALSE
    /\ reader = "idle"
    /\ whole = TRUE
    /\ wanted = 0
    /\ pieces = <<>>
    /\ served = <<>>
    /\ overlapped = FALSE

----------------------------------------------------------------------------
(* The writer.                                                             *)

\* bound: nothing is assembled while the file is read: it would be a step
\* of another program, in its own memory.
AssembleNext ==
    /\ ~writing
    /\ reader = "idle"
    /\ FormatNext
    /\ UNCHANGED <<disk, writing, readerVars>>

\* The open of writeFile, which truncates the file.
WriteFile ==
    /\ phase = "assembled"
    /\ emitted.tag \in FileTags
    /\ ~writing
    /\ writing' = TRUE
    /\ disk' = [snapshot |-> Snapshot(emitted, table, size), size |-> 0]
    /\ overlapped' = (overlapped \/ reader \in {"head", "reading"})
    /\ UNCHANGED <<formatVars, reader, whole, wanted, pieces, served>>

WritePiece ==
    /\ writing
    /\ \E c \in Cuts(disk.snapshot) :
           c > disk.size /\ disk' = [disk EXCEPT !.size = c]
    /\ UNCHANGED <<formatVars, writing, readerVars>>

\* All is written, and the program has no more use for the snapshot.
Written ==
    /\ writing
    /\ disk.size = disk.snapshot.size
    /\ writing' = FALSE
    /\ Leave
    /\ UNCHANGED <<disk, readerVars>>

\* The writer dies with the snapshot in its memory.
Crash ==
    /\ writing
    /\ writing' = FALSE
    /\ Leave
    /\ UNCHANGED <<disk, readerVars>>

----------------------------------------------------------------------------
(* The reader.                                                             *)

Read == IF pieces = <<>> THEN 0 ELSE pieces[Len(pieces)].end

\* The snapshot that a byte, counted from 1, is of.  Nothing that was not
\* read is of any: the buffer is not cleared.
Of(b) ==
    IF b > Read THEN Blank
    ELSE pieces[CHOOSE i \in DOMAIN pieces :
                    b <= pieces[i].end /\ \A j \in 1 .. i - 1 : pieces[j].end < b].of

Stat(to, all) ==
    /\ reader = "idle"
    /\ \/ phase = "idle"
       \/ phase = "assembled" /\ emitted.tag \in FileTags
    /\ reader' = to
    /\ whole' = all
    /\ wanted' = disk.size
    /\ overlapped' = writing
    /\ UNCHANGED <<formatVars, disk, writing, pieces, served>>

\* The stat of readSnapshotFile, and that of readSnapshotHeaderFile.
StatFile == Stat("reading", TRUE)
StatHead == Stat(IF disk.size < FIXED_HEADER_BYTES THEN "reading" ELSE "head", FALSE)

Reject ==
    /\ reader' = "rejected"
    /\ UNCHANGED <<formatVars, disk, writing, whole, wanted, pieces, served, overlapped>>

\* readSnapshotHeaderFile reads the fixed header for the length of the head,
\* and then all of the head.
ReadFixed ==
    /\ reader = "head"
    /\ disk.size >= FIXED_HEADER_BYTES
    /\ reader' = "reading"
    /\ wanted' = IF ManifestOf(disk.snapshot) < wanted THEN ManifestOf(disk.snapshot) ELSE wanted
    /\ UNCHANGED <<formatVars, disk, writing, whole, pieces, served, overlapped>>

RejectFixed == reader = "head" /\ disk.size < FIXED_HEADER_BYTES /\ Reject

\* handle.read: as much as the system gives.
ReadPiece ==
    /\ reader = "reading"
    /\ LET most == IF disk.size < wanted THEN disk.size ELSE wanted
       IN  \E c \in Cuts(disk.snapshot) \cup {most} :
               /\ Read < c
               /\ c <= most
               /\ Len(pieces) + 1 >= MaxPieces => c = most
               /\ pieces' = Append(pieces, [end |-> c, of |-> disk.snapshot])
    /\ UNCHANGED <<formatVars, disk, writing, reader, whole, wanted, served, overlapped>>

\* handle.read gives nothing although there should be more.
EndsEarly == reader = "reading" /\ Read < wanted /\ disk.size <= Read

\* mutant: handle.read is called again and again.
ReadAgain == EndsEarly /\ UNCHANGED vars

RejectShort == EndsEarly /\ Reject

\* mutant: a short read is parsed anyway.
GotSomething == EndsEarly \/ (reader = "reading" /\ Read = wanted)

\* readInto returns.
Got == reader = "reading" /\ Read = wanted

\* The snapshot whose section count is in the header, at bytes 20 to 24.
Header == Of(24)

\* readHeader: no header, or the table is cut.
HeaderMissing == wanted < FIXED_HEADER_BYTES \/ wanted < HeadEnd(Header)

RejectHeader == Got /\ HeaderMissing /\ Reject

Entries == 1 .. Len(Header.table)

\* The entry in the table read, which may belong to another snapshot.
InTable(i) == i \in DOMAIN Of(FIXED_HEADER_BYTES + 8 * i).table
Entry(i) ==
    IF InTable(i) THEN Of(FIXED_HEADER_BYTES + 8 * i).table[i]
                  ELSE [offset |-> 0, length |-> wanted]

\* mutant: only its start is looked at.
StartsInside(s) == s.offset <= wanted

\* new Uint8Array throws if the section is not in the buffer.
Inside(s) == s.offset + s.length <= wanted

\* createReadersFromLayout makes a view of every section.
RejectSections ==
    /\ Got
    /\ whole
    /\ ~HeaderMissing
    /\ \E i \in Entries : ~InTable(i) \/ ~Inside(Entry(i))
    /\ Reject

Serve ==
    /\ reader' = "served"
    /\ served' = [i \in Entries |-> Entry(i)]
    /\ UNCHANGED <<formatVars, disk, writing, whole, wanted, pieces, overlapped>>

ServeFile ==
    /\ Got
    /\ whole
    /\ ~HeaderMissing
    /\ \A i \in Entries : Inside(Entry(i))
    /\ Serve

\* mutant: what there is of the manifest is taken for it.
ManifestStarted == Got /\ ~whole /\ ~HeaderMissing

\* inspect parses the manifest.
ManifestRead == Got /\ ~whole /\ ~HeaderMissing /\ ManifestOf(Header) <= wanted

\* A part of it is not JSON, and two parts may not be.
RejectManifest ==
    /\ Got
    /\ ~whole
    /\ ~HeaderMissing
    /\ wanted < ManifestOf(Header) \/ Of(ManifestOf(Header)) # Header
    /\ Reject

Inspect == ManifestRead /\ Serve

Close ==
    /\ reader \in {"served", "rejected"}
    /\ reader' = "idle"
    /\ whole' = TRUE
    /\ wanted' = 0
    /\ pieces' = <<>>
    /\ served' = <<>>
    /\ overlapped' = FALSE
    /\ UNCHANGED <<formatVars, disk, writing>>

Reading ==
    \/ ReadFixed
    \/ RejectFixed
    \/ ReadPiece
    \/ RejectShort
    \/ RejectHeader
    \/ RejectSections
    \/ ServeFile
    \/ RejectManifest
    \/ Inspect

----------------------------------------------------------------------------

Next ==
    \/ AssembleNext
    \/ WriteFile
    \/ WritePiece
    \/ Written
    \/ Crash
    \/ StatFile
    \/ StatHead
    \/ Reading
    \/ Close

Spec == Init /\ [][Next]_vars

\* Reading a file is a loop of system calls that return.  No fairness is
\* assumed of the writer: it may come back at any time, and may die.
FairSpec == Spec /\ WF_vars(Reading)

----------------------------------------------------------------------------

(* The state is of its type: the file is a beginning of a snapshot, and    *)
(* what was read of it goes on where the last read ended.                  *)
TypeOK ==
    /\ FormatTypeOK
    /\ disk.size \in 0 .. disk.snapshot.size
    /\ writing => phase = "assembled"
    /\ reader \in {"idle", "head", "reading", "served", "rejected"}
    /\ wanted \in Nat
    /\ Read <= wanted
    /\ \A i \in 2 .. Len(pieces) : pieces[i - 1].end < pieces[i].end
    /\ \A i \in Entries : reader = "served" => i \in DOMAIN served

(* A read that no writer meets tells the truth: what it serves is all of   *)
(* the snapshot that was assembled, and if it refuses the file, then a     *)
(* writer died in it, in the head if only that was read (io.ts:34-53,      *)
(* 76-104, format.ts:128-165, 221-225).                                    *)
QuietReads ==
    ~overlapped /\ pieces # <<>> =>
        LET s == pieces[1].of
        IN  /\ reader = "served" => served = s.table /\ wanted >= ManifestOf(s)
            /\ reader = "served" /\ whole => wanted = s.size
            /\ reader = "rejected" => wanted < s.size
            /\ reader = "rejected" /\ ~whole => wanted < ManifestOf(s)

(* A file that comes in one read is one snapshot, whole, or is refused,    *)
(* whatever a writer did to it between the stat and the read: neither a    *)
(* beginning of a snapshot nor a size taken from another passes for one.   *)
OneReadOneSnapshot ==
    reader = "served" /\ Len(pieces) = 1 =>
        /\ served = pieces[1].of.table
        /\ whole => wanted = pieces[1].of.size

(* What is served was read: no section reaches into the part of the buffer *)
(* that holds what was in memory before (io.ts:14-23, 47-53).              *)
NoOldMemory ==
    reader = "served" /\ whole =>
        \A i \in DOMAIN served : served[i].offset + served[i].length <= Read

(* Every read ends, whatever happens to the file.                          *)
ReadsEnd == reader \in {"head", "reading"} ~> reader \in {"served", "rejected"}
=============================================================================
