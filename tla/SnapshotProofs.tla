--------------------------- MODULE SnapshotProofs ---------------------------
(***************************************************************************)
(* Proofs about Format.tla and SnapshotFile.tla, for any width of an       *)
(* offset, any emissions and any writer and reader of the file; and about  *)
(* MCSnapshot.tla, where what is in a file runs beside it.                 *)
(***************************************************************************)
EXTENDS MCSnapshot, TrigramProofs

----------------------------------------------------------------------------
(* Alignment and the two conversions.                                      *)

LEMMA Widths ==
  /\ Half \in Nat /\ Half > 64 /\ Half % 8 = 0
  /\ Width \in Nat /\ Width = 2 * Half /\ Width % 8 = 0
BY HalfAssumption DEF Width

LEMMA Wide ==
  Half \in Nat /\ Half > 64 /\ Width \in Nat /\ Width = 2 * Half
BY Widths

(* What Floor8 returns, and that it keeps the order.                       *)
LEMMA Floored ==
  ASSUME NEW n \in Int
  PROVE  /\ Floor8(n) \in Int /\ Floor8(n) % 8 = 0
         /\ Floor8(n) <= n /\ n <= Floor8(n) + 7
         /\ \A m \in Int : m % 8 = 0 /\ m <= n => m <= Floor8(n)
         /\ \A m \in Int : m % 8 = 0 => Floor8(n - m) = Floor8(n) - m
BY DEF Floor8, SECTION_ALIGN

LEMMA Aligned ==
  ASSUME NEW n \in Int
  PROVE  AlignUp(n) \in Int /\ -Half <= AlignUp(n) /\ AlignUp(n) <= Half - 8
<1> DEFINE x == ToInt32(n + 7)
<1>1. (n + 7) % Width \in 0 .. Width - 1
  BY Widths
<1>2. x \in Int /\ -Half <= x /\ x <= Half - 1
  BY <1>1, Widths DEF ToInt32
<1>3. AlignUp(n) = Floor8(x)
  BY DEF AlignUp, SECTION_ALIGN
<1> HIDE DEF x
<1>4. Floor8(x) <= Half - 8 /\ -Half <= Floor8(x) /\ Floor8(x) \in Int
  BY <1>2, Widths DEF Floor8, SECTION_ALIGN
<1>5. QED
  BY <1>3, <1>4

(* Where an offset that did not wrap is aligned, and what is stored of it. *)
LEMMA AlignedInWidth ==
  ASSUME NEW m \in Nat, m + 7 < Width, NEW n \in {m, m - Width}
  PROVE  /\ AlignUp(n) \in {Floor8(m + 7), Floor8(m + 7) - Width}
         /\ ToUint32(AlignUp(n)) = Floor8(m + 7)
<1>1. (n + 7) % Width = m + 7
  <2>1. CASE n = m
    BY <2>1, Widths
  <2>2. CASE n = m - Width
    <3>1. n + 7 = (m + 7) - Width
      BY <2>2, Widths
    <3>2. ((m + 7) - Width) % Width = m + 7
      BY Widths
    <3>3. QED
      BY <3>1, <3>2
  <2>3. QED
    BY <2>1, <2>2
<1>2. ToInt32(n + 7) \in {m + 7, (m + 7) - Width}
  BY <1>1 DEF ToInt32
<1>3. Floor8((m + 7) - Width) = Floor8(m + 7) - Width
  BY Widths, Floored
<1>4. AlignUp(n) \in {Floor8(m + 7), Floor8(m + 7) - Width}
  BY <1>2, <1>3 DEF AlignUp, SECTION_ALIGN
<1>5. Floor8(m + 7) \in 0 .. Width - 1
  BY Widths DEF Floor8, SECTION_ALIGN
<1> DEFINE f == Floor8(m + 7)
<1> HIDE DEF f
<1>6. f % Width = f /\ (f - Width) % Width = f
  BY <1>5, Widths DEF f
<1>7. QED
  BY <1>4, <1>6 DEF ToUint32, f

(* What aligning yields for a start t, counted without bound, and the      *)
(* offset o that stands for it.                                            *)
LEMMA PlacedAt ==
  ASSUME NEW t \in Nat, NEW o \in Int, t < Width => o \in {t, t - Width},
         NEW f, f = Floor8(t + 7), NEW a, a = AlignUp(o)
  PROVE  /\ f \in Nat /\ t <= f
         /\ a \in Int /\ a <= Half - 8
         /\ f < Width => a \in {f, f - Width}
         /\ f < Width => ToUint32(a) = f
         /\ f >= Width - 7 => t >= Width - 7
         /\ ToUint32(a) \in 0 .. Width - 1
<1>1. f \in Int /\ f <= t + 7 /\ t + 7 <= f + 7
  BY Floored, t + 7 \in Int
<1>2. f \in Nat /\ t <= f
  BY <1>1
<1>3. a \in Int /\ a <= Half - 8
  BY Aligned
<1>4. t + 7 < Width \/ f >= Width
  <2>1. Width % 8 = 0 /\ Width \in Int
    BY Widths
  <2>2. Width <= t + 7 => Width <= f
    BY <2>1, t + 7 \in Int, Floored
  <2>3. QED
    BY <2>1, <2>2
<1>5. f >= Width - 7 => t >= Width - 7
  <2>1. t >= Width - 7 \/ t + 7 < Width
    BY Wide
  <2>2. ASSUME t + 7 < Width PROVE f <= Width - 8
    <3>1. f % 8 = 0 /\ f < Width
      BY <1>1, <2>2, Floored, t + 7 \in Int, Wide
    <3>2. QED
      BY <3>1, <1>2, Widths
  <2>3. QED
    BY <2>1, <2>2, <1>2, Wide
<1>6. /\ f < Width => a \in {f, f - Width}
      /\ f < Width => ToUint32(a) = f
  <2>1. ASSUME f < Width PROVE t + 7 < Width /\ o \in {t, t - Width}
    BY <2>1, <1>2, <1>4, Wide
  <2>2. QED
    BY <2>1, AlignedInWidth
<1>7. ToUint32(a) \in 0 .. Width - 1
  BY <1>3, Wide DEF ToUint32
<1>8. QED
  BY <1>1, <1>2, <1>3, <1>5, <1>6, <1>7

----------------------------------------------------------------------------
(* The inductive invariant.                                                *)

Sections == emitted.sections
LaidIn == 1 .. Len(table)

\* The starts, counted without bound, are apart.
StartsApart ==
    /\ \A i \in LaidIn :
           /\ start[i] % 8 = 0 /\ start[i] >= ManifestEnd
           /\ start[i] + Sections[i] <= total
           /\ \A j \in 1 .. i - 1 : start[j] + Sections[j] <= start[i]
    /\ total >= ManifestEnd

\* The table has them and the lengths, as far as these are words.
TableHolds ==
    \A i \in LaidIn :
        /\ table[i].length = ToUint32(Sections[i])
        /\ start[i] < Width => table[i].offset = start[i]

OffsetHolds == total < Width => offset \in {total, total - Width}

LastLength == IF table = <<>> THEN 0 ELSE Sections[Len(table)]

\* A signed offset and the length of the last section.
OffsetBound == offset <= Half - 8 + LastLength

\* The last section starts where it was laid, and the offset is its end.
LastPlaced ==
    table # <<>> =>
        /\ offset - LastLength \in -Half .. Half - 8
        /\ table[Len(table)].offset = ToUint32(offset - LastLength)

\* Where offsets came to the limit, something was set up to end there.
LimitIsMet ==
    total >= Width - 7 =>
        \/ ManifestEnd >= Width - 7
        \/ \E i \in LaidIn : table[i].offset + Sections[i] >= Width - 7

Fit ==
    phase \in {"write", "assembled"} =>
        /\ size = offset
        /\ \A i \in 1 .. written : table[i].offset + Sections[i] <= size
        /\ phase = "assembled" => ManifestEnd <= size /\ written = Count

FormatInv ==
    /\ FormatTypeOK
    /\ phase = "idle" => table = <<>> /\ start = <<>>
    /\ phase # "idle" => emitted \in Emissions
    /\ phase \in {"idle", "layout"} => written = 0
    /\ phase # "idle" => StartsApart /\ TableHolds /\ OffsetHolds /\ OffsetBound /\ LastPlaced /\ LimitIsMet
    /\ Fit

----------------------------------------------------------------------------

LEMMA EmittedTyped ==
  ASSUME FormatTypeOK
  PROVE  /\ Sections \in Seq(Nat) /\ Count \in Nat /\ Count = Len(Sections)
         /\ emitted.manifest \in Nat /\ ManifestEnd \in Nat
         /\ \A i \in 1 .. Count : Sections[i] \in Nat
         /\ Len(table) \in Nat
<1>1. emitted.manifest \in Nat /\ Sections \in Seq(Nat)
  <2>1. CASE emitted \in Emissions
    BY <2>1, EmissionsAssumption DEF Sections
  <2>2. CASE emitted = Nothing
    BY <2>2 DEF Nothing, Sections
  <2>3. QED
    BY <2>1, <2>2 DEF FormatTypeOK
<1>2. Count \in Nat /\ Count = Len(Sections)
  BY <1>1 DEF Count, Sections
<1>3. ManifestEnd \in Nat
  BY <1>1, <1>2 DEF ManifestEnd, TableEnd, FIXED_HEADER_BYTES
<1>4. Len(table) \in Nat
  BY DEF FormatTypeOK
<1>5. QED
  BY <1>1, <1>2, <1>3, <1>4

LEMMA FormatInitHolds == FormatInit => FormatInv
<1> SUFFICES ASSUME FormatInit PROVE FormatInv
  OBVIOUS
<1>1. FormatTypeOK
  BY Widths DEF FormatInit, FormatTypeOK, Nothing, Count
<1>2. QED
  BY <1>1 DEF FormatInit, FormatInv, Fit

LEMMA AssembleKeeps ==
  ASSUME FormatInv, NEW e \in Emissions, Assemble(e)
  PROVE  FormatInv'
<1>1. /\ emitted' = e /\ phase' = "layout" /\ phase = "idle"
      /\ offset' = AlignUp(ManifestEnd') /\ total' = Floor8(ManifestEnd' + 7)
      /\ UNCHANGED <<table, size, written, start>>
      /\ table = <<>> /\ start = <<>> /\ written = 0 /\ size \in 0 .. Width - 1
  BY DEF Assemble, FormatInv, FormatTypeOK
<1>2. e.manifest \in Nat /\ e.sections \in Seq(Nat)
  BY EmissionsAssumption
<1>3. Count' \in Nat /\ ManifestEnd' \in Nat
  BY <1>1, <1>2 DEF Count, ManifestEnd, TableEnd, FIXED_HEADER_BYTES
<1>4. PICK m, f, a : /\ m \in Nat /\ m = ManifestEnd' /\ f = Floor8(m + 7) /\ a = AlignUp(m)
                     /\ f = total' /\ a = offset'
  BY <1>1, <1>3
<1>5. m \in Int /\ m \in {m, m - Width}
  BY <1>4
<1>6. /\ f \in Nat /\ m <= f /\ a \in Int /\ a <= Half - 8
      /\ f < Width => a \in {f, f - Width}
      /\ f >= Width - 7 => m >= Width - 7
  BY <1>4, <1>5, PlacedAt
<1>7. FormatTypeOK'
  <2>1. emitted' \in Emissions \cup {Nothing}
    BY <1>1
  <2>2. table' = <<>> /\ start' = <<>> /\ Len(table') = 0 /\ Len(start') = 0
    BY <1>1
  <2>3. QED
    BY <2>1, <2>2, <1>1, <1>3, <1>4, <1>6 DEF FormatTypeOK
<1>8. LaidIn' = {}
  BY <1>1 DEF LaidIn
<1>9. StartsApart' /\ TableHolds'
  BY <1>4, <1>6, <1>8 DEF StartsApart, TableHolds
<1>10. OffsetHolds'
  BY <1>4, <1>6 DEF OffsetHolds
<1>11. OffsetBound'
  BY <1>1, <1>4, <1>6, Wide DEF OffsetBound, LastLength
<1>12. LimitIsMet'
  BY <1>4, <1>6 DEF LimitIsMet
<1>13. LastPlaced'
  BY <1>1 DEF LastPlaced
<1>14. QED
  BY <1>1, <1>7, <1>9, <1>10, <1>11, <1>12, <1>13 DEF Fit, FormatInv

LEMMA LaySectionKeeps ==
  ASSUME FormatInv, LaySection
  PROVE  FormatInv'
<1>1. /\ Sections \in Seq(Nat) /\ Count \in Nat /\ ManifestEnd \in Nat
      /\ \A i \in 1 .. Count : Sections[i] \in Nat
  BY EmittedTyped DEF FormatInv
<1>2. PICK n, f, a, l, entry :
         /\ n = Len(table) /\ f = Floor8(total + 7) /\ a = AlignUp(offset) /\ l = Sections[n + 1]
         /\ entry = [offset |-> ToUint32(a), length |-> ToUint32(l)]
  OBVIOUS
<1>3. /\ phase = "layout" /\ n < Count /\ table' = Append(table, entry)
      /\ offset' = a + l /\ start' = Append(start, f) /\ total' = f + l
      /\ UNCHANGED <<emitted, phase, size, written>>
  BY <1>2 DEF LaySection, NextLength, Sections
<1>4. /\ StartsApart /\ TableHolds /\ OffsetHolds /\ LimitIsMet /\ written = 0
      /\ size \in 0 .. Width - 1 /\ emitted \in Emissions \cup {Nothing}
  BY <1>3 DEF FormatInv, FormatTypeOK
<1>5. /\ start \in Seq(Nat) /\ Len(start) = n /\ total \in Nat /\ offset \in Int /\ n \in Nat
      /\ table \in Seq([offset : 0 .. Width - 1, length : 0 .. Width - 1]) /\ Len(table) = n
  BY <1>2 DEF FormatInv, FormatTypeOK
<1>6. /\ f \in Nat /\ total <= f /\ a \in Int /\ a <= Half - 8
      /\ f < Width => a \in {f, f - Width} /\ ToUint32(a) = f
      /\ f >= Width - 7 => total >= Width - 7
      /\ ToUint32(a) \in 0 .. Width - 1
  <2>1. total < Width => offset \in {total, total - Width}
    BY <1>4 DEF OffsetHolds
  <2>2. PICK t \in Nat, o \in Int :
            t = total /\ o = offset /\ f = Floor8(t + 7) /\ a = AlignUp(o)
    BY <1>2, <1>5
  <2>3. t < Width => o \in {t, t - Width}
    BY <2>1, <2>2
  <2>4. t \in Nat /\ o \in Int /\ f = Floor8(t + 7) /\ a = AlignUp(o)
    BY <2>2
  <2>5. /\ f \in Nat /\ t <= f /\ a \in Int /\ a <= Half - 8
        /\ f < Width => a \in {f, f - Width}
        /\ f >= Width - 7 => t >= Width - 7
        /\ f < Width => ToUint32(a) = f
        /\ ToUint32(a) \in 0 .. Width - 1
    <3>1. f \in Nat /\ t <= f /\ a \in Int /\ a <= Half - 8
      BY <2>3, <2>4, PlacedAt
    <3>2. f < Width => a \in {f, f - Width}
      BY <2>3, <2>4, PlacedAt
    <3>3. f >= Width - 7 => t >= Width - 7
      BY <2>3, <2>4, PlacedAt
    <3>4. f < Width => ToUint32(a) = f
      BY <2>3, <2>4, PlacedAt
    <3>5. ToUint32(a) \in 0 .. Width - 1
      BY <2>3, <2>4, PlacedAt
    <3>6. QED
      BY <3>1, <3>2, <3>3, <3>4, <3>5
  <2>7. QED
    BY <2>2, <2>5
<1>7. f % 8 = 0
  BY <1>2, <1>5, total + 7 \in Int, Floored
<1>8. n + 1 \in 1 .. Count /\ l \in Nat
  BY <1>1, <1>2, <1>3, <1>5
<1>9. ToUint32(l) \in 0 .. Width - 1
  BY <1>8, Wide DEF ToUint32
<1>10. entry.offset = ToUint32(a) /\ entry.length = ToUint32(l)
  BY <1>2
<1>11. entry \in [offset : 0 .. Width - 1, length : 0 .. Width - 1]
  BY <1>2, <1>6, <1>9
<1>12. /\ table' \in Seq([offset : 0 .. Width - 1, length : 0 .. Width - 1])
       /\ Len(table') = n + 1 /\ table'[n + 1] = entry
       /\ \A i \in 1 .. n : table'[i] = table[i]
  BY <1>3, <1>5, <1>11
<1>13. /\ start' \in Seq(Nat) /\ Len(start') = n + 1 /\ start'[n + 1] = f
       /\ \A i \in 1 .. n : start'[i] = start[i]
  <2>1. start' = Append(start, f) /\ f \in Nat /\ start \in Seq(Nat) /\ Len(start) = n /\ n \in Nat
    BY <1>3, <1>5, <1>6
  <2>2. QED
    BY <2>1
<1>14. Sections' = Sections /\ ManifestEnd' = ManifestEnd /\ Count' = Count
  BY <1>3 DEF Sections, ManifestEnd, TableEnd, Count
<1>15. LaidIn = 1 .. n /\ LaidIn' = 1 .. n + 1
  BY <1>5, <1>12 DEF LaidIn
<1>16. \A i \in 1 .. n + 1 : i \in 1 .. n \/ i = n + 1
  BY <1>5
<1>17. \A i \in 1 .. n : start[i] \in Nat /\ Sections[i] \in Nat
  BY <1>1, <1>5, <1>8
<1>18. total' \in Nat /\ offset' \in Int /\ total <= total' /\ f <= total'
  BY <1>3, <1>5, <1>6, <1>8
<1>19. FormatTypeOK'
  <2>1. Len(table') <= Count'
    BY <1>8, <1>12, <1>14
  <2>2. phase' = "layout" /\ emitted' \in Emissions \cup {Nothing}
    BY <1>3, <1>4
  <2>3. written' \in 0 .. Count' /\ size' \in 0 .. Width - 1
    BY <1>1, <1>3, <1>4, <1>14
  <2>4. QED
    BY <1>12, <1>13, <1>18, <2>1, <2>2, <2>3 DEF FormatTypeOK
<1>20. StartsApart'
  <2>1. /\ total >= ManifestEnd
        /\ \A i \in 1 .. n :
               /\ start[i] % 8 = 0 /\ start[i] >= ManifestEnd
               /\ start[i] + Sections[i] <= total
               /\ \A j \in 1 .. i - 1 : start[j] + Sections[j] <= start[i]
    BY <1>4, <1>15 DEF StartsApart
  <2>2. total' >= ManifestEnd /\ f >= ManifestEnd
    BY <2>1, <1>1, <1>5, <1>6, <1>18
  <2>3. \A i \in 1 .. n : start[i] + Sections[i] <= f /\ start[i] + Sections[i] <= total'
    <3>1. ASSUME NEW i \in 1 .. n
          PROVE  start[i] + Sections[i] <= f /\ start[i] + Sections[i] <= total'
      <4>1. start[i] + Sections[i] <= total /\ start[i] + Sections[i] \in Nat
        BY <2>1, <1>17
      <4>2. total \in Nat /\ f \in Nat /\ total' \in Nat /\ total <= f /\ total <= total'
        BY <1>5, <1>6, <1>18
      <4>3. QED
        BY <4>1, <4>2
    <3>2. QED
      BY <3>1
  <2>4. ASSUME NEW i \in 1 .. n
        PROVE  /\ start'[i] % 8 = 0 /\ start'[i] >= ManifestEnd
               /\ start'[i] + Sections[i] <= total'
               /\ \A j \in 1 .. i - 1 : start'[j] + Sections[j] <= start'[i]
    <3>1. \A j \in 1 .. i - 1 : j \in 1 .. n
      BY <1>5
    <3>2. QED
      BY <2>1, <2>3, <3>1, <1>13
  <2>5. /\ start'[n + 1] % 8 = 0 /\ start'[n + 1] >= ManifestEnd
        /\ start'[n + 1] + Sections[n + 1] <= total'
        /\ \A j \in 1 .. (n + 1) - 1 : start'[j] + Sections[j] <= start'[n + 1]
    <3>1. (n + 1) - 1 = n
      BY <1>5
    <3>2. f + l <= total'
      BY <1>3, <1>18
    <3>3. QED
      BY <2>2, <2>3, <3>1, <3>2, <1>2, <1>7, <1>13
  <2>6. QED
    BY <2>2, <2>4, <2>5, <1>14, <1>15, <1>16 DEF StartsApart
<1>21. TableHolds'
  <2>1. ASSUME NEW i \in 1 .. n
        PROVE  /\ table'[i].length = ToUint32(Sections[i])
               /\ start'[i] < Width => table'[i].offset = start'[i]
    BY <1>4, <1>12, <1>13, <1>15 DEF TableHolds
  <2>2. /\ table'[n + 1].length = ToUint32(Sections[n + 1])
        /\ start'[n + 1] < Width => table'[n + 1].offset = start'[n + 1]
    BY <1>2, <1>6, <1>10, <1>12, <1>13
  <2>3. QED
    BY <2>1, <2>2, <1>14, <1>15, <1>16 DEF TableHolds
<1>22. OffsetHolds'
  <2>1. ASSUME f + l < Width PROVE a + l \in {f + l, (f + l) - Width}
    <3>1. a \in {f, f - Width}
      BY <2>1, <1>6, <1>8, Wide
    <3>2. QED
      BY <3>1, <1>6, <1>8, Wide
  <2>2. QED
    BY <2>1, <1>3 DEF OffsetHolds
<1>23. OffsetBound'
  <2>1. table' # <<>>
    BY <1>5, <1>12
  <2>2. LastLength' = l
    BY <2>1, <1>2, <1>12, <1>14 DEF LastLength
  <2>3. a + l <= Half - 8 + l
    BY <1>6, <1>8, Wide
  <2>4. QED
    BY <2>2, <2>3, <1>3 DEF OffsetBound
<1>24. LimitIsMet'
  <2>1. SUFFICES ASSUME total' >= Width - 7
                 PROVE  \/ ManifestEnd >= Width - 7
                        \/ \E i \in 1 .. n + 1 : table'[i].offset + Sections[i] >= Width - 7
    BY <1>14, <1>15 DEF LimitIsMet
  <2>2. CASE total >= Width - 7
    <3>1. \/ ManifestEnd >= Width - 7
          \/ \E i \in 1 .. n : table[i].offset + Sections[i] >= Width - 7
      BY <2>2, <1>4, <1>15 DEF LimitIsMet
    <3>2. \A i \in 1 .. n : i \in 1 .. n + 1 /\ table'[i] = table[i]
      BY <1>5, <1>12
    <3>3. QED
      BY <3>1, <3>2
  <2>3. CASE ~(total >= Width - 7)
    <3>1. f < Width
      BY <2>3, <1>6, Wide
    <3>2. table'[n + 1].offset = f
      BY <3>1, <1>6, <1>10, <1>12
    <3>3. f + Sections[n + 1] >= Width - 7
      BY <2>1, <1>2, <1>3
    <3>4. n + 1 \in 1 .. n + 1
      BY <1>5
    <3>5. QED
      BY <3>2, <3>3, <3>4
  <2>4. QED
    BY <2>2, <2>3
<1>25. LastPlaced'
  <2>1. Len(table') = n + 1 /\ table' # <<>> /\ LastLength' = l /\ l \in Int
    BY <1>2, <1>5, <1>8, <1>12, <1>14 DEF LastLength
  <2>2. offset' - LastLength' = a
    BY <2>1, <1>3, <1>6
  <2>3. -Half <= a
    BY <1>2, <1>5, Aligned
  <2>4. a \in -Half .. Half - 8
    BY <2>3, <1>6, Wide
  <2>5. table'[n + 1].offset = ToUint32(a)
    BY <1>10, <1>12
  <2>6. QED
    BY <2>1, <2>2, <2>4, <2>5 DEF LastPlaced
<1>26. QED
  BY <1>3, <1>4, <1>19, <1>20, <1>21, <1>22, <1>23, <1>24, <1>25 DEF Fit, FormatInv

(* After the layout only the phase, the size and what is written change.   *)
LEMMA LayoutStays ==
  ASSUME FormatInv, phase # "idle", UNCHANGED <<emitted, offset, table, history>>
  PROVE  /\ StartsApart' /\ TableHolds' /\ OffsetHolds' /\ OffsetBound' /\ LastPlaced' /\ LimitIsMet'
         /\ Count' = Count /\ ManifestEnd' = ManifestEnd /\ Sections' = Sections
<1>1. UNCHANGED <<emitted, offset, table, start, total>>
  BY DEF history
<1>2. Count' = Count /\ ManifestEnd' = ManifestEnd /\ Sections' = Sections /\ LaidIn' = LaidIn
  BY <1>1 DEF Count, ManifestEnd, TableEnd, Sections, LaidIn
<1>3. StartsApart /\ TableHolds /\ OffsetHolds /\ OffsetBound /\ LastPlaced /\ LimitIsMet
  BY DEF FormatInv
<1>4. StartsApart' /\ TableHolds'
  BY <1>1, <1>2, <1>3 DEF StartsApart, TableHolds
<1>5. OffsetHolds'
  BY <1>1, <1>3 DEF OffsetHolds
<1>6. OffsetBound'
  BY <1>1, <1>2, <1>3 DEF OffsetBound, LastLength
<1>7. LimitIsMet'
  BY <1>1, <1>2, <1>3 DEF LimitIsMet
<1>8. LastPlaced'
  BY <1>1, <1>2, <1>3 DEF LastPlaced, LastLength
<1>9. QED
  BY <1>2, <1>4, <1>5, <1>6, <1>7, <1>8

LEMMA RefuseKeeps ==
  ASSUME FormatInv, phase \in {"layout", "write"}, Refuse
  PROVE  FormatInv'
<1>1. phase' = "refused" /\ UNCHANGED <<emitted, offset, table, size, written, history>>
  BY DEF Refuse
<1>2. /\ StartsApart' /\ TableHolds' /\ OffsetHolds' /\ OffsetBound' /\ LastPlaced' /\ LimitIsMet'
      /\ Count' = Count
  BY <1>1, LayoutStays
<1>3. FormatTypeOK'
  BY <1>1, <1>2 DEF FormatInv, FormatTypeOK, history
<1>4. QED
  BY <1>1, <1>2, <1>3 DEF FormatInv, Fit

LEMMA AllocateKeeps ==
  ASSUME FormatInv, Allocate
  PROVE  FormatInv'
<1>1. /\ phase = "layout" /\ Len(table) = Count /\ offset \in 0 .. Width - 1
      /\ phase' = "write" /\ size' = offset
      /\ UNCHANGED <<emitted, offset, table, written, history>> /\ written = 0
  BY DEF Allocate, LaidOut, FormatInv
<1>2. /\ StartsApart' /\ TableHolds' /\ OffsetHolds' /\ OffsetBound' /\ LastPlaced' /\ LimitIsMet'
      /\ Count' = Count
  BY <1>1, LayoutStays
<1>3. FormatTypeOK'
  BY <1>1, <1>2 DEF FormatInv, FormatTypeOK, history
<1>4. Fit'
  <2>1. size' = offset' /\ phase' = "write" /\ 1 .. written' = {}
    BY <1>1
  <2>2. QED
    BY <2>1 DEF Fit
<1>5. QED
  BY <1>1, <1>2, <1>3, <1>4 DEF FormatInv

LEMMA WriteSectionKeeps ==
  ASSUME FormatInv, WriteSection
  PROVE  FormatInv'
<1>1. /\ phase = "write" /\ written < Count /\ written' = written + 1
      /\ table[written + 1].offset + Sections[written + 1] <= size
      /\ UNCHANGED <<emitted, phase, offset, table, size, history>>
  BY DEF WriteSection, NextFits, Sections
<1>2. /\ StartsApart' /\ TableHolds' /\ OffsetHolds' /\ OffsetBound' /\ LastPlaced' /\ LimitIsMet'
      /\ Count' = Count /\ Sections' = Sections
  BY <1>1, LayoutStays
<1>3. written \in Nat /\ Count \in Nat
  BY EmittedTyped DEF FormatInv, FormatTypeOK
<1>4. FormatTypeOK'
  <2>1. written' \in 0 .. Count'
    BY <1>1, <1>2, <1>3
  <2>2. QED
    BY <1>1, <1>2, <2>1 DEF FormatInv, FormatTypeOK, history
<1>5. Fit'
  <2>1. size = offset /\ \A i \in 1 .. written : table[i].offset + Sections[i] <= size
    BY <1>1 DEF FormatInv, Fit
  <2>2. \A i \in 1 .. written' : i \in 1 .. written \/ i = written + 1
    BY <1>1, <1>3
  <2>3. QED
    BY <1>1, <1>2, <2>1, <2>2 DEF Fit
<1>6. QED
  BY <1>1, <1>2, <1>4, <1>5 DEF FormatInv

LEMMA AssembledKeeps ==
  ASSUME FormatInv, Assembled
  PROVE  FormatInv'
<1>1. /\ phase = "write" /\ ManifestEnd <= size /\ written = Count /\ phase' = "assembled"
      /\ UNCHANGED <<emitted, offset, table, size, written, history>>
  BY DEF Assembled
<1>2. /\ StartsApart' /\ TableHolds' /\ OffsetHolds' /\ OffsetBound' /\ LastPlaced' /\ LimitIsMet'
      /\ Count' = Count /\ ManifestEnd' = ManifestEnd /\ Sections' = Sections
  BY <1>1, LayoutStays
<1>3. FormatTypeOK'
  BY <1>1, <1>2 DEF FormatInv, FormatTypeOK, history
<1>4. Fit'
  BY <1>1, <1>2 DEF FormatInv, Fit
<1>5. QED
  BY <1>1, <1>2, <1>3, <1>4 DEF FormatInv

LEMMA UnchangedKeeps ==
  ASSUME FormatInv, UNCHANGED formatVars
  PROVE  FormatInv'
<1>1. UNCHANGED <<emitted, phase, offset, table, size, written, start, total>>
  BY DEF formatVars, history
<1>2. Count' = Count /\ ManifestEnd' = ManifestEnd /\ Sections' = Sections
  BY <1>1 DEF Count, ManifestEnd, TableEnd, Sections
<1>3. FormatTypeOK'
  BY <1>1, <1>2 DEF FormatInv, FormatTypeOK
<1>4. phase' # "idle" => StartsApart' /\ TableHolds' /\ OffsetHolds' /\ OffsetBound' /\ LastPlaced' /\ LimitIsMet'
  BY <1>1, LayoutStays DEF history
<1>5. Fit'
  BY <1>1, <1>2 DEF FormatInv, Fit
<1>6. QED
  BY <1>1, <1>3, <1>4, <1>5 DEF FormatInv

LEMMA LeaveResets == Leave => FormatInit'
BY DEF Leave, FormatInit, Nothing

(* Every step of assembling keeps the invariant.                           *)
LEMMA FormatStepKeeps ==
  ASSUME FormatInv, [FormatNext]_formatVars
  PROVE  FormatInv'
<1>1. ASSUME NEW e \in Emissions, Assemble(e) PROVE FormatInv'
  BY <1>1, AssembleKeeps
<1>2. CASE LaySection
  BY <1>2, LaySectionKeeps
<1>3. CASE RefuseLarge \/ RefuseNegative \/ RefuseHeader \/ RefuseSection
  <2>1. phase \in {"layout", "write"} /\ Refuse
    BY <1>3 DEF RefuseLarge, RefuseNegative, RefuseHeader, RefuseSection, LaidOut
  <2>2. QED
    BY <2>1, RefuseKeeps
<1>4. CASE Allocate
  BY <1>4, AllocateKeeps
<1>5. CASE WriteSection
  BY <1>5, WriteSectionKeeps
<1>6. CASE Assembled
  BY <1>6, AssembledKeeps
<1>7. CASE Leave
  <2>1. FormatInit' => FormatInv'
    BY FormatInitHolds, PTL
  <2>2. QED
    BY <1>7, <2>1, LeaveResets
<1>8. CASE UNCHANGED formatVars
  BY <1>8, UnchangedKeeps
<1>9. QED
  BY <1>1, <1>2, <1>3, <1>4, <1>5, <1>6, <1>7, <1>8 DEF FormatNext, FormatSteps

(* In every state of the invariant what was assembled can be read back.    *)
LEMMA InvariantKeepsApart == FormatInv => SectionsApart
<1> SUFFICES ASSUME FormatInv, phase = "assembled", Moderate
             PROVE  \A i \in 1 .. Count :
                        /\ table[i].length = Sections[i]
                        /\ table[i].offset % 8 = 0
                        /\ table[i].offset >= ManifestEnd
                        /\ table[i].offset + table[i].length <= size
                        /\ \A j \in 1 .. i - 1 : table[j].offset + table[j].length <= table[i].offset
  BY DEF SectionsApart, Sections, SECTION_ALIGN
<1>1. /\ Count \in Nat /\ ManifestEnd \in Nat /\ \A i \in 1 .. Count : Sections[i] \in Nat
  BY EmittedTyped DEF FormatInv
<1>2. /\ size = offset /\ size \in 0 .. Width - 1 /\ ManifestEnd <= size
      /\ \A i \in 1 .. Count : table[i].offset + Sections[i] <= size
  BY DEF FormatInv, Fit, FormatTypeOK
<1>3. LaidIn = 1 .. Count /\ total \in Nat /\ Len(table) = Count
  BY DEF FormatInv, FormatTypeOK, LaidIn
<1>4. StartsApart /\ TableHolds /\ OffsetHolds /\ OffsetBound /\ LastPlaced /\ LimitIsMet
  BY DEF FormatInv
<1>5. total < Width
  <2>1. SUFFICES ASSUME total >= Width PROVE FALSE
    BY <1>3, Wide
  <2>2. \A i \in 1 .. Count : Sections[i] < Half
    BY <2>1, <1>3, Wide DEF Moderate, Sections
  <2>3. LastLength \in Nat /\ LastLength < Half
    <3>1. CASE table = <<>>
      BY <3>1, Wide DEF LastLength
    <3>2. CASE table # <<>>
      <4>1. Count \in 1 .. Count
        BY <3>2, <1>1, <1>3 DEF FormatInv, FormatTypeOK
      <4>2. LastLength = Sections[Count]
        BY <3>2, <1>3 DEF LastLength
      <4>3. QED
        BY <4>1, <4>2, <2>2, <1>1
    <3>3. QED
      BY <3>1, <3>2
  <2>4. size < Width - 8
    BY <2>3, <1>2, <1>4, Wide DEF OffsetBound
  <2>5. total >= Width - 7
    BY <2>1, <1>3, Wide
  <2>6. \/ ManifestEnd >= Width - 7
        \/ \E i \in 1 .. Count : table[i].offset + Sections[i] >= Width - 7
    BY <2>5, <1>3, <1>4 DEF LimitIsMet
  <2>7. ~(ManifestEnd >= Width - 7)
    BY <2>4, <1>1, <1>2, Wide
  <2>8. PICK i \in 1 .. Count : table[i].offset + Sections[i] >= Width - 7
    BY <2>6, <2>7
  <2>9. table[i].offset \in 0 .. Width - 1 /\ Sections[i] \in Nat
    <3>1. table \in Seq([offset : 0 .. Width - 1, length : 0 .. Width - 1])
      BY DEF FormatInv, FormatTypeOK
    <3>2. i \in 1 .. Count /\ i \in 1 .. Len(table)
      BY <2>8, <1>3
    <3>3. table[i] \in [offset : 0 .. Width - 1, length : 0 .. Width - 1]
      BY <3>1, <3>2, ElementOfSeq
    <3>4. QED
      BY <3>2, <3>3, <1>1
  <2>10. table[i].offset + Sections[i] \in Nat /\ table[i].offset + Sections[i] <= size
    <3>1. \A x \in 0 .. Width - 1, y \in Nat : x + y \in Nat
      BY Wide
    <3>2. table[i].offset + Sections[i] <= size
      BY <2>8, <1>2
    <3>3. QED
      BY <2>9, <3>1, <3>2
  <2>11. size \in Nat
    BY <1>2, Wide
  <2>12. QED
    BY <2>4, <2>8, <2>10, <2>11, Wide
<1>6. \A i \in 1 .. Count : table[i].offset = start[i] /\ table[i].length = Sections[i]
  <2>1. ASSUME NEW i \in 1 .. Count
        PROVE  table[i].offset = start[i] /\ table[i].length = Sections[i]
    <3>1. start[i] \in Nat /\ Sections[i] \in Nat
      BY <1>1, <1>3 DEF FormatInv, FormatTypeOK
    <3>2. start[i] + Sections[i] <= total
      BY <1>3, <1>4 DEF StartsApart
    <3>3. start[i] < Width /\ Sections[i] < Width
      BY <3>1, <3>2, <1>3, <1>5, Wide
    <3>4. ToUint32(Sections[i]) = Sections[i]
      BY <3>1, <3>3, Wide DEF ToUint32
    <3>5. QED
      BY <3>3, <3>4, <1>3, <1>4 DEF TableHolds
  <2>2. QED
    BY <2>1
<1>7. \A i \in 1 .. Count : \A j \in 1 .. i - 1 : j \in 1 .. Count
  BY <1>1
<1>8. \A i \in 1 .. Count :
          /\ start[i] % 8 = 0 /\ start[i] >= ManifestEnd
          /\ \A j \in 1 .. i - 1 : start[j] + Sections[j] <= start[i]
  BY <1>3, <1>4 DEF StartsApart
<1>9. QED
  BY <1>2, <1>6, <1>7, <1>8

----------------------------------------------------------------------------
(* The file and the programs that use it.                                  *)

(* What the programs do to the file is no step of an assembly, or the one  *)
(* that ends it.                                                           *)
LEMMA FileStepsAreFormatSteps ==
  ASSUME [Next]_vars
  PROVE  [FormatNext]_formatVars
<1>1. CASE AssembleNext
  BY <1>1 DEF AssembleNext
<1>2. CASE WriteFile \/ WritePiece
  BY <1>2 DEF WriteFile, WritePiece
<1>3. CASE Written \/ Crash
  BY <1>3 DEF Written, Crash, FormatNext
<1>4. CASE StatFile \/ StatHead
  BY <1>4 DEF StatFile, StatHead, Stat
<1>5. CASE Reading
  BY <1>5 DEF Reading, ReadFixed, RejectFixed, ReadPiece, RejectShort, RejectHeader,
              RejectSections, ServeFile, RejectManifest, Inspect, Reject, Serve
<1>6. CASE Close
  BY <1>6 DEF Close
<1>7. CASE UNCHANGED vars
  BY <1>7 DEF vars
<1>8. QED
  BY <1>1, <1>2, <1>3, <1>4, <1>5, <1>6, <1>7 DEF Next

(* The invariant of an assembly, whatever is done with the file.           *)
LEMMA FormatInvariant == Spec => []FormatInv
<1>1. Init => FormatInv
  BY FormatInitHolds DEF Init
<1>2. FormatInv /\ [Next]_vars => FormatInv'
  BY FileStepsAreFormatSteps, FormatStepKeeps
<1>3. QED
  BY <1>1, <1>2, PTL DEF Spec

(* Every snapshot that assembleSnapshot returns (format.ts:71-133), of any *)
(* sections none of which has 2 GiB, or of less than 4 GiB in all, has its *)
(* sections apart, aligned and inside, as its table says, although offsets *)
(* are computed in signed integers: those that wrapped round end in an     *)
(* error.                                                                  *)
THEOREM AssembledIsReadable == Spec => []SectionsApart
BY FormatInvariant, InvariantKeepsApart, PTL

(* The state of an assembly is of its type.                                *)
THEOREM FormatTypeCorrect == Spec => []FormatTypeOK
<1>1. FormatInv => FormatTypeOK
  BY DEF FormatInv
<1>2. QED
  BY <1>1, FormatInvariant, PTL

(* No section that a reader is given of a whole file reaches into what was *)
(* in memory before (io.ts:14-23, 47-53, format.ts:152-165), whatever a    *)
(* writer does to the file meanwhile and whichever lengths it reads.       *)
THEOREM NothingOldIsServed == Spec => []NoOldMemory
<1>1. Init => NoOldMemory
  BY DEF Init, NoOldMemory
<1>2. ASSUME NoOldMemory, [Next]_vars PROVE NoOldMemory'
  <2>1. ASSUME UNCHANGED <<reader, whole, served, pieces>> PROVE NoOldMemory'
    BY <1>2, <2>1 DEF NoOldMemory, Read
  <2>2. CASE AssembleNext \/ WriteFile \/ WritePiece \/ Written \/ Crash
    BY <2>1, <2>2 DEF AssembleNext, WriteFile, WritePiece, Written, Crash, readerVars
  <2>3. CASE StatFile \/ StatHead \/ ReadFixed \/ RejectFixed \/ RejectShort \/ RejectHeader
             \/ RejectSections \/ RejectManifest \/ Close
    <3>1. reader' # "served"
      BY <2>3 DEF StatFile, StatHead, Stat, ReadFixed, RejectFixed, RejectShort, RejectHeader,
                  RejectSections, RejectManifest, Reject, Close
    <3>2. QED
      BY <3>1 DEF NoOldMemory
  <2>4. CASE ReadPiece
    <3>1. reader' # "served"
      BY <2>4 DEF ReadPiece
    <3>2. QED
      BY <3>1 DEF NoOldMemory
  <2>5. CASE ServeFile
    <3>1. /\ Read = wanted /\ \A i \in Entries : Inside(Entry(i))
          /\ served' = [i \in Entries |-> Entry(i)] /\ UNCHANGED pieces
      BY <2>5 DEF ServeFile, Got, Serve
    <3>2. Read' = Read
      BY <3>1 DEF Read
    <3>3. \A i \in DOMAIN served' : served'[i] = Entry(i) /\ i \in Entries
      BY <3>1
    <3>4. \A i \in DOMAIN served' : served'[i].offset + served'[i].length <= Read'
      BY <3>1, <3>2, <3>3 DEF Inside
    <3>5. QED
      BY <3>4 DEF NoOldMemory
  <2>6. CASE Inspect
    <3>1. ~whole'
      BY <2>6 DEF Inspect, ManifestRead, Serve
    <3>2. QED
      BY <3>1 DEF NoOldMemory
  <2>7. CASE UNCHANGED vars
    BY <2>1, <2>7 DEF vars, readerVars
  <2>8. QED
    BY <1>2, <2>2, <2>3, <2>4, <2>5, <2>6, <2>7 DEF Next, Reading
<1>3. QED
  BY <1>1, <1>2, PTL DEF Spec

----------------------------------------------------------------------------
(* What a read is given.  The invariant of the file: it is the beginning   *)
(* of a snapshot that was assembled, each piece that was read is of one,   *)
(* and as long as no writer met the reader all are of the same.            *)

\* A snapshot that was assembled: all of its sections are inside, and one
\* ends where it ends.
Complete(s) ==
    /\ s.table # <<>>
    /\ Len(s.table) = Len(s.emission.sections)
    /\ ManifestOf(s) <= s.size
    /\ \A i \in DOMAIN s.table : s.table[i].offset + s.table[i].length <= s.size
    /\ \E i \in DOMAIN s.table : s.table[i].offset + s.table[i].length = s.size

Snapshots ==
    {s \in [emission : Emissions, size : Nat,
            table : Seq([offset : 0 .. Width - 1, length : 0 .. Width - 1])] : Complete(s)}

FileHolds ==
    /\ disk.snapshot \in Snapshots \cup {Blank}
    /\ disk.size \in 0 .. disk.snapshot.size
    /\ writing => phase = "assembled"

PiecesHold ==
    /\ pieces \in Seq([end : Nat, of : Snapshots])
    /\ \A i \in DOMAIN pieces : pieces[i].end \in 1 .. pieces[i].of.size
    /\ \A i \in 2 .. Len(pieces) : pieces[i - 1].end < pieces[i].end
    /\ wanted \in Nat /\ Read <= wanted

ReaderHolds ==
    /\ reader \in {"idle", "head", "reading", "served", "rejected"}
    /\ reader = "idle" => pieces = <<>>
    /\ reader = "head" => pieces = <<>> /\ ~whole

\* What was served is what was read.
ServedWasRead ==
    reader = "served" =>
        /\ Read = wanted /\ ~HeaderMissing
        /\ served = [i \in Entries |-> Entry(i)]
        /\ whole => \A i \in Entries : Inside(Entry(i))
        /\ ~whole => ManifestOf(Header) <= wanted

AllOf(s) == \A i \in DOMAIN pieces : pieces[i].of = s

\* No writer is in the file, and what was read is of what is in it.
QuietWhileReading ==
    ~overlapped /\ reader \in {"head", "reading"} =>
        ~writing /\ wanted <= disk.size /\ AllOf(disk.snapshot)

QuietAtEnd ==
    ~overlapped /\ reader \in {"served", "rejected"} /\ pieces # <<>> =>
        LET s == pieces[1].of
        IN  /\ AllOf(s)
            /\ reader = "rejected" => wanted < s.size
            /\ reader = "rejected" /\ ~whole => wanted < ManifestOf(s)

ReadInv ==
    FileHolds /\ PiecesHold /\ ReaderHolds /\ ServedWasRead /\ QuietWhileReading /\ QuietAtEnd

(* What assembleSnapshot returns is complete.  The last section ends where *)
(* the snapshot ends: its start cannot have been negative, for as a word   *)
(* it would be past the end and the write of the section would fail.       *)
LEMMA AssembledIsComplete ==
  ASSUME FormatInv, phase = "assembled"
  PROVE  Snapshot(emitted, table, size) \in Snapshots
<1> DEFINE s == Snapshot(emitted, table, size)
<1>1. /\ s.emission = emitted /\ s.table = table /\ s.size = size
      /\ s = [emission |-> emitted, table |-> table, size |-> size]
  BY DEF Snapshot
<1>2. /\ Count \in Nat /\ ManifestEnd \in Nat /\ \A i \in 1 .. Count : Sections[i] \in Nat
      /\ Sections \in Seq(Nat) /\ Count = Len(Sections)
  BY EmittedTyped DEF FormatInv
<1>3. /\ size = offset /\ size \in 0 .. Width - 1 /\ ManifestEnd <= size
      /\ \A i \in 1 .. Count : table[i].offset + Sections[i] <= size
  BY DEF FormatInv, Fit, FormatTypeOK
<1>4. /\ table \in Seq([offset : 0 .. Width - 1, length : 0 .. Width - 1])
      /\ Len(table) = Count
  BY DEF FormatInv, FormatTypeOK
<1>5. LastPlaced /\ TableHolds
  BY DEF FormatInv
<1>6. \A i \in 1 .. Count : table[i].offset \in 0 .. Width - 1 /\ table[i].length = Sections[i]
  <2>1. SUFFICES ASSUME NEW i \in 1 .. Count
                 PROVE  table[i].offset \in 0 .. Width - 1 /\ table[i].length = Sections[i]
    OBVIOUS
  <2>2. i \in 1 .. Len(table) /\ Sections[i] \in Nat
    BY <1>2, <1>4
  <2>3. table[i] \in [offset : 0 .. Width - 1, length : 0 .. Width - 1]
    BY <2>2, <1>4, ElementOfSeq
  <2>4. table[i].length = ToUint32(Sections[i])
    BY <2>2, <1>5 DEF TableHolds, LaidIn
  <2>5. table[i].offset \in 0 .. Width - 1 /\ table[i].offset + Sections[i] <= size
    BY <2>3, <1>3
  <2>6. Sections[i] \in 0 .. Width - 1
    BY <2>2, <2>5, <1>3, Wide
  <2>7. QED
    BY <2>4, <2>5, <2>6, Wide DEF ToUint32
<1>7. emitted \in Emissions /\ Count >= 1
  <2>1. emitted \in Emissions
    BY DEF FormatInv
  <2>2. Sections # <<>>
    BY <2>1, EmissionsAssumption DEF Sections
  <2>3. QED
    BY <2>1, <2>2, <1>2
<1>8. table[Count].offset + Sections[Count] = size
  <2>1. Count \in 1 .. Count /\ table # <<>> /\ Len(table) = Count
    BY <1>2, <1>4, <1>7
  <2>2. PICK l, a : l = Sections[Count] /\ l \in Nat /\ a = offset - l
    BY <2>1, <1>2
  <2>3. a \in -Half .. Half - 8 /\ table[Count].offset = ToUint32(a)
    BY <2>1, <2>2, <1>5 DEF LastPlaced, LastLength
  <2>4. a \in Int /\ size = a + l /\ size \in Int
    BY <2>2, <2>3, <1>3, Wide
  <2>5. ToUint32(a) + l <= size
    BY <2>1, <2>2, <2>3, <1>3
  <2>6. CASE a < 0
    <3>1. ToUint32(a) = a + Width
      BY <2>6, <2>3, Wide DEF ToUint32
    <3>2. QED
      BY <3>1, <2>2, <2>4, <2>5, Wide
  <2>7. CASE a >= 0
    <3>1. ToUint32(a) = a
      BY <2>7, <2>3, Wide DEF ToUint32
    <3>2. QED
      BY <3>1, <2>2, <2>3, <2>4
  <2>8. QED
    BY <2>4, <2>6, <2>7
<1>9. ManifestOf(s) = ManifestEnd /\ Len(s.emission.sections) = Count
  BY <1>1, <1>2 DEF ManifestOf, HeadEnd, ManifestEnd, TableEnd, Sections, Count
<1>10. DOMAIN table = 1 .. Count /\ Count \in 1 .. Count /\ table # <<>>
  BY <1>2, <1>4, <1>7
<1>11. Complete(s)
  <2>1. \A i \in 1 .. Count : table[i].offset + table[i].length <= size
    BY <1>3, <1>6
  <2>2. table[Count].offset + table[Count].length = size
    BY <1>6, <1>8, <1>10
  <2>3. QED
    BY <2>1, <2>2, <1>1, <1>3, <1>4, <1>9, <1>10 DEF Complete
<1>12. s \in [emission : Emissions, size : Nat,
              table : Seq([offset : 0 .. Width - 1, length : 0 .. Width - 1])]
  <2>1. size \in Nat
    BY <1>3, Wide
  <2>2. QED
    BY <2>1, <1>1, <1>4, <1>7
<1>13. QED
  BY <1>11, <1>12 DEF Snapshots

LEMMA SnapshotTyped ==
  ASSUME NEW s \in Snapshots
  PROVE  /\ Complete(s) /\ s.size \in Nat /\ s.emission.manifest \in Nat
         /\ s.table \in Seq([offset : 0 .. Width - 1, length : 0 .. Width - 1])
         /\ DOMAIN s.table = 1 .. Len(s.table) /\ Len(s.table) \in Nat
         /\ HeadEnd(s) = 32 + 8 * Len(s.table)
         /\ HeadEnd(s) \in Nat /\ ManifestOf(s) \in Nat
         /\ 32 <= HeadEnd(s) /\ HeadEnd(s) <= ManifestOf(s) /\ ManifestOf(s) <= s.size
<1>1. /\ Complete(s) /\ s.emission \in Emissions /\ s.size \in Nat
      /\ s.table \in Seq([offset : 0 .. Width - 1, length : 0 .. Width - 1])
  BY DEF Snapshots
<1>2. s.emission.manifest \in Nat
  BY <1>1, EmissionsAssumption
<1>3. DOMAIN s.table = 1 .. Len(s.table) /\ Len(s.table) \in Nat
  BY <1>1
<1>4. HeadEnd(s) = 32 + 8 * Len(s.table)
  BY <1>1 DEF HeadEnd, Complete, FIXED_HEADER_BYTES
<1>5. ManifestOf(s) = HeadEnd(s) + s.emission.manifest /\ ManifestOf(s) <= s.size
  BY <1>1 DEF ManifestOf, Complete
<1>6. QED
  BY <1>1, <1>2, <1>3, <1>4, <1>5

LEMMA PiecesTyped ==
  ASSUME PiecesHold
  PROVE  /\ DOMAIN pieces = 1 .. Len(pieces) /\ Len(pieces) \in Nat
         /\ \A i \in DOMAIN pieces : pieces[i].end \in Nat /\ pieces[i].of \in Snapshots
         /\ Read \in Nat /\ wanted \in Nat /\ Read <= wanted
<1>1. /\ pieces \in Seq([end : Nat, of : Snapshots])
      /\ DOMAIN pieces = 1 .. Len(pieces) /\ Len(pieces) \in Nat
  BY DEF PiecesHold
<1>2. \A i \in DOMAIN pieces : pieces[i].end \in Nat /\ pieces[i].of \in Snapshots
  <2>1. SUFFICES ASSUME NEW i \in DOMAIN pieces
                 PROVE  pieces[i].end \in Nat /\ pieces[i].of \in Snapshots
    OBVIOUS
  <2>2. pieces[i] \in [end : Nat, of : Snapshots]
    BY <1>1, ElementOfSeq
  <2>3. QED
    BY <2>2
<1>3. Read \in Nat
  <2>1. CASE pieces = <<>>
    BY <2>1 DEF Read
  <2>2. CASE pieces # <<>>
    <3>1. Len(pieces) \in DOMAIN pieces
      BY <2>2, <1>1
    <3>2. QED
      BY <2>2, <3>1, <1>2 DEF Read
  <2>3. QED
    BY <2>1, <2>2
<1>4. QED
  BY <1>1, <1>2, <1>3 DEF PiecesHold

(* A byte that was read is of one of the pieces.                           *)
LEMMA ByteOfPiece ==
  ASSUME PiecesHold, NEW b \in Nat, 1 <= b, b <= Read
  PROVE  \E i \in DOMAIN pieces : Of(b) = pieces[i].of
<1> DEFINE T == {i \in DOMAIN pieces : b <= pieces[i].end}
<1>1. pieces \in Seq([end : Nat, of : Snapshots]) /\ DOMAIN pieces = 1 .. Len(pieces)
      /\ Len(pieces) \in Nat /\ Read \in Nat /\ \A i \in DOMAIN pieces : pieces[i].end \in Nat
  BY PiecesTyped DEF PiecesHold
<1>2. pieces # <<>> /\ Read = pieces[Len(pieces)].end
  BY DEF Read
<1>3. Len(pieces) \in T
  BY <1>1, <1>2
<1>4. T \subseteq Nat /\ T # {}
  BY <1>1, <1>3
<1>5. PICK d \in T : \A c \in T : d <= c
  <2> HIDE DEF T
  <2>1. QED
    BY <1>4, LeastNumber
<1>6. \A j \in 1 .. d - 1 : pieces[j].end < b
  <2>1. SUFFICES ASSUME NEW j \in 1 .. d - 1 PROVE pieces[j].end < b
    OBVIOUS
  <2>2. j \in DOMAIN pieces /\ j \notin T
    BY <1>1, <1>5
  <2>3. pieces[j].end \in Nat
    BY <1>1, <2>2
  <2>4. ~(b <= pieces[j].end)
    BY <2>2
  <2>5. QED
    BY <2>3, <2>4
<1>7. \E i \in DOMAIN pieces : b <= pieces[i].end /\ \A j \in 1 .. i - 1 : pieces[j].end < b
  BY <1>5, <1>6
<1>8. ~(b > Read)
  BY <1>1, <1>2
<1> HIDE DEF T
<1>9. QED
  BY <1>7, <1>8 DEF Of

(* When all that was read is of one snapshot and the head of it was read,  *)
(* the table that the reader finds is the table of the snapshot.           *)
LEMMA OneSource ==
  ASSUME PiecesHold, NEW s \in Snapshots, AllOf(s), Read = wanted, ~HeaderMissing
  PROVE  /\ Header = s /\ Entries = DOMAIN s.table
         /\ \A i \in Entries : InTable(i) /\ Entry(i) = s.table[i]
         /\ [i \in Entries |-> Entry(i)] = s.table
         /\ \A b \in Nat : 1 <= b /\ b <= Read => Of(b) = s
<1>1. \A b \in Nat : 1 <= b /\ b <= Read => Of(b) = s
  BY ByteOfPiece DEF AllOf
<1>2. Read \in Nat /\ 32 <= Read
  BY PiecesTyped DEF HeaderMissing, FIXED_HEADER_BYTES
<1>3. Header = s /\ HeadEnd(s) <= Read
  <2>1. Header = s
    BY <1>1, <1>2 DEF Header
  <2>2. ~(wanted < HeadEnd(s))
    BY <2>1 DEF HeaderMissing
  <2>3. QED
    BY <2>1, <2>2, <1>2, SnapshotTyped
<1>4. Entries = DOMAIN s.table /\ Entries = 1 .. Len(s.table)
  BY <1>3, SnapshotTyped DEF Entries
<1>5. \A i \in Entries : InTable(i) /\ Entry(i) = s.table[i]
  <2>1. SUFFICES ASSUME NEW i \in Entries PROVE InTable(i) /\ Entry(i) = s.table[i]
    OBVIOUS
  <2>2. i \in 1 .. Len(s.table) /\ Len(s.table) \in Nat /\ HeadEnd(s) = 32 + 8 * Len(s.table)
    BY <1>4, SnapshotTyped
  <2>3. 32 + 8 * i \in Nat /\ 1 <= 32 + 8 * i /\ 32 + 8 * i <= Read
    BY <2>2, <1>2, <1>3
  <2>4. Of(32 + 8 * i) = s
    BY <1>1, <2>3
  <2>5. InTable(i)
    BY <2>4, <1>4 DEF InTable, FIXED_HEADER_BYTES
  <2>6. QED
    BY <2>4, <2>5 DEF Entry, FIXED_HEADER_BYTES
<1>6. [i \in Entries |-> Entry(i)] = s.table
  <2>1. [i \in Entries |-> Entry(i)] = [i \in DOMAIN s.table |-> s.table[i]]
    BY <1>4, <1>5
  <2>2. s.table = [i \in DOMAIN s.table |-> s.table[i]]
    BY SnapshotTyped
  <2>3. QED
    BY <2>1, <2>2
<1>7. QED
  BY <1>1, <1>3, <1>4, <1>5, <1>6

(* Whoever is given all sections of a snapshot has read to its end.        *)
LEMMA AllInsideIsAll ==
  ASSUME NEW s \in Snapshots, wanted \in Nat, wanted <= s.size,
         \A i \in DOMAIN s.table : Inside(s.table[i])
  PROVE  wanted = s.size
<1>1. PICK i \in DOMAIN s.table : s.table[i].offset + s.table[i].length = s.size
  BY SnapshotTyped DEF Complete
<1>2. QED
  BY <1>1, SnapshotTyped DEF Inside

----------------------------------------------------------------------------
(* The steps.                                                              *)

LEMMA ReadInitHolds == Init => ReadInv
<1> SUFFICES ASSUME Init PROVE ReadInv
  OBVIOUS
<1>1. pieces = <<>> /\ wanted = 0 /\ reader = "idle" /\ ~writing
      /\ disk = [snapshot |-> Blank, size |-> 0]
  BY DEF Init
<1>2. Blank.size = 0
  BY DEF Blank, Snapshot
<1>3. pieces \in Seq([end : Nat, of : Snapshots]) /\ DOMAIN pieces = {} /\ Len(pieces) = 0
  BY <1>1
<1>4. PiecesHold
  BY <1>1, <1>3 DEF PiecesHold, Read
<1>5. QED
  BY <1>1, <1>2, <1>4
     DEF ReadInv, FileHolds, ReaderHolds, ServedWasRead, QuietWhileReading, QuietAtEnd

(* What a reader has does not change without a step of its own.            *)
LEMMA ReaderStays ==
  ASSUME UNCHANGED <<whole, wanted, pieces, served>>
  PROVE  /\ Read' = Read /\ Header' = Header /\ Entries' = Entries /\ HeaderMissing' = HeaderMissing
         /\ \A i \in Entries : Entry(i)' = Entry(i) /\ Inside(Entry(i))' = Inside(Entry(i))
         /\ PiecesHold => PiecesHold'
         /\ \A s : AllOf(s) => AllOf(s)'
<1>1. Read' = Read
  BY DEF Read
<1>2. \A b : Of(b)' = Of(b)
  BY <1>1 DEF Of
<1>3. Header' = Header
  BY <1>2 DEF Header
<1>4. Entries' = Entries /\ HeaderMissing' = HeaderMissing
  BY <1>3 DEF Entries, HeaderMissing
<1>5. \A i \in Entries : Entry(i)' = Entry(i)
  BY <1>2 DEF Entry, InTable
<1>6. \A i \in Entries : Inside(Entry(i))' = Inside(Entry(i))
  BY <1>5 DEF Inside
<1>7. PiecesHold => PiecesHold'
  BY <1>1 DEF PiecesHold
<1>8. \A s : AllOf(s) => AllOf(s)'
  BY DEF AllOf
<1>9. QED
  BY <1>1, <1>3, <1>4, <1>5, <1>6, <1>7, <1>8

(* What does not depend on the file stays as long as the reader does.      *)
LEMMA IdleReader ==
  ASSUME ReadInv, UNCHANGED <<reader, whole, wanted, pieces, served>>
  PROVE  /\ PiecesHold' /\ ReaderHolds' /\ ServedWasRead'
         /\ (overlapped => overlapped') => QuietAtEnd'
<1>1. PiecesHold' /\ ReaderHolds'
  BY ReaderStays DEF ReadInv, ReaderHolds
<1>2. ServedWasRead'
  <2>1. SUFFICES ASSUME reader = "served" PROVE ServedWasRead'
    BY DEF ServedWasRead
  <2>2. /\ Read = wanted /\ ~HeaderMissing /\ served = [i \in Entries |-> Entry(i)]
        /\ whole => \A i \in Entries : Inside(Entry(i))
        /\ ~whole => ManifestOf(Header) <= wanted
    BY <2>1 DEF ReadInv, ServedWasRead
  <2>3. /\ Read' = Read /\ Header' = Header /\ Entries' = Entries /\ HeaderMissing' = HeaderMissing
        /\ \A i \in Entries : Entry(i)' = Entry(i) /\ Inside(Entry(i))' = Inside(Entry(i))
    BY ReaderStays
  <2>4. [i \in Entries |-> Entry(i)]' = [i \in Entries |-> Entry(i)]
    BY <2>3
  <2>5. ManifestOf(Header)' = ManifestOf(Header)
    BY <2>3 DEF ManifestOf, HeadEnd
  <2>6. QED
    BY <2>2, <2>3, <2>4, <2>5 DEF ServedWasRead
<1>3. ASSUME overlapped => overlapped' PROVE QuietAtEnd'
  <2>1. \A s : AllOf(s) => AllOf(s)'
    BY ReaderStays
  <2>2. \A s : ManifestOf(s)' = ManifestOf(s)
    BY DEF ManifestOf, HeadEnd
  <2>3. QED
    BY <1>3, <2>1, <2>2 DEF ReadInv, QuietAtEnd, AllOf
<1>4. QED
  BY <1>1, <1>2, <1>3

LEMMA WriterKeeps ==
  ASSUME FormatInv, ReadInv, AssembleNext \/ WriteFile \/ WritePiece \/ Written \/ Crash
  PROVE  ReadInv'
<1>1. UNCHANGED <<reader, whole, wanted, pieces, served>>
  BY DEF AssembleNext, WriteFile, WritePiece, Written, Crash, readerVars
<1>2. PiecesHold' /\ ReaderHolds' /\ ServedWasRead' /\ ((overlapped => overlapped') => QuietAtEnd')
  BY <1>1, IdleReader
<1>3. FileHolds /\ QuietWhileReading
  BY DEF ReadInv
<1>4. CASE AssembleNext
  <2>1. UNCHANGED <<disk, writing, overlapped>> /\ ~writing /\ reader = "idle"
    BY <1>4 DEF AssembleNext, readerVars
  <2>2. FileHolds' /\ QuietWhileReading'
    BY <2>1, <1>1, <1>3 DEF FileHolds, QuietWhileReading
  <2>3. QED
    BY <2>1, <2>2, <1>2 DEF ReadInv
<1>5. CASE WriteFile
  <2>1. /\ phase = "assembled" /\ phase' = phase
        /\ disk' = [snapshot |-> Snapshot(emitted, table, size), size |-> 0]
        /\ overlapped' = (overlapped \/ reader \in {"head", "reading"})
    BY <1>5 DEF WriteFile, formatVars
  <2>2. Snapshot(emitted, table, size) \in Snapshots
    BY <2>1, AssembledIsComplete
  <2>3. FileHolds'
    <3>1. disk'.snapshot \in Snapshots /\ disk'.size = 0 /\ disk'.snapshot.size \in Nat
      BY <2>1, <2>2, SnapshotTyped
    <3>2. QED
      BY <2>1, <3>1 DEF FileHolds
  <2>4. QuietWhileReading'
    BY <2>1, <1>1 DEF QuietWhileReading
  <2>5. QuietAtEnd'
    <3>1. overlapped => overlapped'
      BY <2>1
    <3>2. QED
      BY <3>1, <1>2
  <2>6. QED
    BY <1>2, <2>3, <2>4, <2>5 DEF ReadInv
<1>6. CASE WritePiece \/ Written \/ Crash
  <2>1. writing /\ overlapped' = overlapped
    BY <1>6 DEF WritePiece, Written, Crash, readerVars
  <2>2. QuietWhileReading'
    BY <2>1, <1>1, <1>3 DEF QuietWhileReading
  <2>3. FileHolds'
    <3>1. CASE WritePiece
      <4>1. PICK c \in Cuts(disk.snapshot) : disk' = [disk EXCEPT !.size = c]
        BY <3>1 DEF WritePiece
      <4>2. c \in 1 .. disk.snapshot.size
        BY DEF Cuts
      <4>3. UNCHANGED <<writing, phase>>
        BY <3>1 DEF WritePiece, formatVars
      <4>4. QED
        BY <4>1, <4>2, <4>3, <1>3 DEF FileHolds
    <3>2. CASE Written \/ Crash
      BY <3>2, <1>3 DEF FileHolds, Written, Crash
    <3>3. QED
      BY <1>6, <3>1, <3>2
  <2>4. QED
    BY <1>2, <2>1, <2>2, <2>3 DEF ReadInv
<1>7. QED
  BY <1>4, <1>5, <1>6

LEMMA StatKeeps ==
  ASSUME ReadInv, StatFile \/ StatHead
  PROVE  ReadInv'
<1>1. PICK to \in {"head", "reading"}, all \in BOOLEAN : Stat(to, all) /\ (to = "head" => ~all)
  BY DEF StatFile, StatHead
<1>2. /\ reader = "idle" /\ reader' = to /\ whole' = all /\ wanted' = disk.size
      /\ overlapped' = writing /\ UNCHANGED <<phase, disk, writing, pieces, served>>
  BY <1>1 DEF Stat, formatVars
<1>3. FileHolds /\ pieces = <<>> /\ PiecesHold
  BY <1>2 DEF ReadInv, ReaderHolds
<1>4. FileHolds'
  BY <1>2, <1>3 DEF FileHolds
<1>5. disk.size \in Nat
  <2>1. disk.snapshot.size \in Nat
    BY <1>3, SnapshotTyped DEF FileHolds, Blank, Snapshot
  <2>2. QED
    BY <2>1, <1>3 DEF FileHolds
<1>6. PiecesHold'
  <2>1. Read' = 0 /\ pieces' = pieces
    BY <1>2, <1>3 DEF Read
  <2>2. QED
    BY <2>1, <1>2, <1>3, <1>5 DEF PiecesHold
<1>7. ReaderHolds' /\ ServedWasRead' /\ QuietAtEnd'
  BY <1>1, <1>2, <1>3 DEF ReaderHolds, ServedWasRead, QuietAtEnd
<1>8. QuietWhileReading'
  BY <1>2, <1>3, <1>5 DEF QuietWhileReading, AllOf
<1>9. QED
  BY <1>4, <1>6, <1>7, <1>8 DEF ReadInv

(* The length of the head that is in the header is that of the file, and   *)
(* no more is read than there was.                                         *)
LEMMA ReadFixedKeeps ==
  ASSUME ReadInv, ReadFixed
  PROVE  ReadInv'
<1>1. /\ reader = "head" /\ disk.size >= 32 /\ reader' = "reading"
      /\ wanted' = IF ManifestOf(disk.snapshot) < wanted
                   THEN ManifestOf(disk.snapshot) ELSE wanted
      /\ UNCHANGED <<phase, disk, writing, whole, pieces, served, overlapped>>
  BY DEF ReadFixed, formatVars, FIXED_HEADER_BYTES
<1>2. FileHolds /\ PiecesHold /\ pieces = <<>> /\ QuietWhileReading /\ wanted \in Nat
  BY <1>1, PiecesTyped DEF ReadInv, ReaderHolds
<1>3. FileHolds'
  BY <1>1, <1>2 DEF FileHolds
<1>4. disk.snapshot \in Snapshots /\ disk.size \in Nat
  <2>1. disk.snapshot # Blank
    BY <1>1, <1>2 DEF FileHolds, Blank, Snapshot
  <2>2. disk.snapshot \in Snapshots
    BY <2>1, <1>2 DEF FileHolds
  <2>3. QED
    BY <2>2, <1>2, SnapshotTyped DEF FileHolds
<1>5. ManifestOf(disk.snapshot) \in Nat
  BY <1>4, SnapshotTyped
<1>6. wanted' \in Nat /\ wanted' <= wanted
  BY <1>1, <1>2, <1>5
<1>7. PiecesHold'
  <2>1. Read' = 0 /\ pieces' = pieces
    BY <1>1, <1>2 DEF Read
  <2>2. QED
    BY <2>1, <1>2, <1>6 DEF PiecesHold
<1>8. ReaderHolds' /\ ServedWasRead' /\ QuietAtEnd'
  BY <1>1 DEF ReaderHolds, ServedWasRead, QuietAtEnd
<1>9. QuietWhileReading'
  BY <1>1, <1>2, <1>4, <1>6 DEF QuietWhileReading, AllOf
<1>10. QED
  BY <1>3, <1>7, <1>8, <1>9 DEF ReadInv

(* A piece is of the snapshot that is in the file, and goes on where the   *)
(* last one ended.                                                         *)
LEMMA ReadPieceKeeps ==
  ASSUME ReadInv, ReadPiece
  PROVE  ReadInv'
<1>1. PICK c : /\ c \in Nat /\ Read < c /\ c <= disk.size /\ c <= wanted
               /\ pieces' = Append(pieces, [end |-> c, of |-> disk.snapshot])
  <2>1. FileHolds /\ PiecesHold
    BY DEF ReadInv
  <2>2. disk.snapshot.size \in Nat
    BY <2>1, SnapshotTyped DEF FileHolds, Blank, Snapshot
  <2>3. disk.size \in Nat /\ wanted \in Nat
    BY <2>1, <2>2, PiecesTyped DEF FileHolds
  <2>4. PICK m, c : /\ m = (IF disk.size < wanted THEN disk.size ELSE wanted)
                    /\ c \in Cuts(disk.snapshot) \cup {m} /\ Read < c /\ c <= m
                    /\ pieces' = Append(pieces, [end |-> c, of |-> disk.snapshot])
    BY DEF ReadPiece
  <2>5. m \in Nat /\ m <= disk.size /\ m <= wanted
    BY <2>3, <2>4
  <2>6. c \in Nat
    BY <2>2, <2>4, <2>5 DEF Cuts
  <2>7. QED
    BY <2>3, <2>4, <2>5, <2>6
<1>2. /\ reader = "reading"
      /\ UNCHANGED <<phase, disk, writing, reader, whole, wanted, served, overlapped>>
  BY DEF ReadPiece, formatVars
<1>3. FileHolds /\ PiecesHold /\ ReaderHolds /\ QuietWhileReading
  BY DEF ReadInv
<1>4. /\ DOMAIN pieces = 1 .. Len(pieces) /\ Len(pieces) \in Nat /\ Read \in Nat /\ wanted \in Nat
      /\ pieces \in Seq([end : Nat, of : Snapshots])
  BY <1>3, PiecesTyped DEF PiecesHold
<1>5. disk.snapshot \in Snapshots /\ disk.size \in Nat /\ disk.size <= disk.snapshot.size
  <2>1. disk.size >= 1 /\ disk.size \in 0 .. disk.snapshot.size
    BY <1>1, <1>3, <1>4 DEF FileHolds
  <2>2. disk.snapshot # Blank
    BY <2>1 DEF Blank, Snapshot
  <2>3. QED
    BY <2>1, <2>2, <1>3, SnapshotTyped DEF FileHolds
<1>6. PICK piece : piece = [end |-> c, of |-> disk.snapshot]
  OBVIOUS
<1>7. /\ pieces' = Append(pieces, piece) /\ piece \in [end : Nat, of : Snapshots]
      /\ piece.end = c /\ piece.of = disk.snapshot
  BY <1>1, <1>5, <1>6
<1>8. /\ pieces' \in Seq([end : Nat, of : Snapshots]) /\ Len(pieces') = Len(pieces) + 1
      /\ DOMAIN pieces' = 1 .. Len(pieces) + 1 /\ pieces'[Len(pieces) + 1] = piece
      /\ \A i \in DOMAIN pieces : pieces'[i] = pieces[i]
  BY <1>4, <1>7
<1>9. \A i \in DOMAIN pieces' : i \in DOMAIN pieces \/ i = Len(pieces) + 1
  BY <1>4, <1>8
<1>10. Read' = c
  <2>1. pieces' # <<>>
    BY <1>4, <1>8
  <2>2. QED
    BY <2>1, <1>7, <1>8 DEF Read
<1>11. PiecesHold'
  <2>1. \A i \in DOMAIN pieces' : pieces'[i].end \in 1 .. pieces'[i].of.size
    <3>1. c \in 1 .. disk.snapshot.size
      BY <1>1, <1>4, <1>5, SnapshotTyped
    <3>2. QED
      BY <3>1, <1>3, <1>7, <1>8, <1>9 DEF PiecesHold
  <2>2. \A i \in 2 .. Len(pieces') : pieces'[i - 1].end < pieces'[i].end
    <3>1. SUFFICES ASSUME NEW i \in 2 .. Len(pieces) + 1
                   PROVE  pieces'[i - 1].end < pieces'[i].end
      BY <1>8
    <3>2. CASE i = Len(pieces) + 1
      <4>1. pieces # <<>> /\ Len(pieces) \in DOMAIN pieces /\ i - 1 = Len(pieces)
        BY <3>2, <1>4
      <4>2. pieces'[i - 1].end = Read
        BY <4>1, <1>8 DEF Read
      <4>3. QED
        BY <4>2, <3>2, <1>1, <1>7, <1>8
    <3>3. CASE i # Len(pieces) + 1
      <4>1. i \in 2 .. Len(pieces) /\ i \in DOMAIN pieces /\ i - 1 \in DOMAIN pieces
        BY <3>3, <1>4
      <4>2. QED
        BY <4>1, <1>3, <1>8 DEF PiecesHold
    <3>4. QED
      BY <3>2, <3>3
  <2>3. QED
    BY <2>1, <2>2, <1>1, <1>2, <1>4, <1>8, <1>10 DEF PiecesHold
<1>12. FileHolds' /\ ReaderHolds' /\ ServedWasRead' /\ QuietAtEnd'
  BY <1>2, <1>3 DEF FileHolds, ReaderHolds, ServedWasRead, QuietAtEnd
<1>13. QuietWhileReading'
  <2>1. SUFFICES ASSUME ~overlapped
                 PROVE  ~writing /\ wanted <= disk.size /\ AllOf(disk.snapshot)'
    BY <1>2 DEF QuietWhileReading
  <2>2. ~writing /\ wanted <= disk.size /\ AllOf(disk.snapshot)
    BY <2>1, <1>2, <1>3 DEF QuietWhileReading
  <2>3. \A i \in DOMAIN pieces' : pieces'[i].of = disk.snapshot
    BY <2>2, <1>7, <1>8, <1>9 DEF AllOf
  <2>4. QED
    BY <2>2, <2>3, <1>2 DEF AllOf
<1>14. QED
  BY <1>11, <1>12, <1>13 DEF ReadInv

(* A file is served only if the sections were all read.                    *)
LEMMA ServeKeeps ==
  ASSUME ReadInv, ServeFile \/ Inspect
  PROVE  ReadInv'
<1>1. /\ reader = "reading" /\ Read = wanted /\ ~HeaderMissing
      /\ whole => \A i \in Entries : Inside(Entry(i))
      /\ ~whole => ManifestOf(Header) <= wanted
      /\ reader' = "served" /\ served' = [i \in Entries |-> Entry(i)]
      /\ UNCHANGED <<phase, disk, writing, whole, wanted, pieces, overlapped>>
  BY DEF ServeFile, Inspect, ManifestRead, Got, Serve, formatVars
<1>2. FileHolds' /\ ReaderHolds' /\ QuietWhileReading'
  BY <1>1 DEF ReadInv, FileHolds, ReaderHolds, QuietWhileReading
<1>3. Read' = Read
  BY <1>1 DEF Read
<1>4. \A b : Of(b)' = Of(b)
  BY <1>1, <1>3 DEF Of
<1>5. Header' = Header /\ Entries' = Entries /\ HeaderMissing' = HeaderMissing
  <2>1. Header' = Header
    BY <1>4 DEF Header
  <2>2. QED
    BY <1>1, <2>1 DEF Entries, HeaderMissing
<1>6. \A i \in Entries : Entry(i)' = Entry(i) /\ Inside(Entry(i))' = Inside(Entry(i))
  <2>1. \A i \in Entries : Entry(i)' = Entry(i)
    BY <1>1, <1>4 DEF Entry, InTable
  <2>2. QED
    BY <1>1, <2>1 DEF Inside
<1>7. PiecesHold'
  BY <1>1, <1>3 DEF ReadInv, PiecesHold
<1>8. ServedWasRead'
  <2>1. [i \in Entries |-> Entry(i)]' = [i \in Entries |-> Entry(i)]
    BY <1>5, <1>6
  <2>2. ManifestOf(Header)' = ManifestOf(Header)
    BY <1>5 DEF ManifestOf, HeadEnd
  <2>3. QED
    BY <1>1, <1>3, <1>5, <1>6, <2>1, <2>2 DEF ServedWasRead
<1>9. QuietAtEnd'
  <2>1. SUFFICES ASSUME ~overlapped, pieces # <<>> PROVE AllOf(pieces[1].of)'
    BY <1>1 DEF QuietAtEnd
  <2>2. AllOf(disk.snapshot) /\ 1 \in DOMAIN pieces
    BY <2>1, <1>1, PiecesTyped DEF ReadInv, QuietWhileReading, PiecesHold
  <2>3. QED
    BY <2>2, <1>1 DEF AllOf
<1>10. QED
  BY <1>2, <1>7, <1>8, <1>9 DEF ReadInv

(* Where no writer was, what is refused is a part of a snapshot.           *)
LEMMA RejectedIsPart ==
  ASSUME ReadInv, ~overlapped, pieces # <<>>, NEW s, s = pieces[1].of,
         RejectFixed \/ RejectShort \/ RejectHeader \/ RejectSections \/ RejectManifest
  PROVE  wanted < s.size /\ (~whole => wanted < ManifestOf(s))
<1>1. FileHolds /\ PiecesHold /\ ReaderHolds /\ QuietWhileReading
  BY DEF ReadInv
<1>2. reader = "reading"
  BY <1>1 DEF RejectFixed, RejectShort, EndsEarly, RejectHeader, RejectSections,
              RejectManifest, Got, ReaderHolds
<1>3. 1 \in DOMAIN pieces /\ s \in Snapshots /\ wanted \in Nat /\ Read \in Nat
  BY <1>1, PiecesTyped DEF PiecesHold
<1>4. wanted <= disk.size /\ AllOf(s) /\ disk.size <= s.size /\ disk.size \in Nat
  <2>1. wanted <= disk.size /\ AllOf(disk.snapshot)
    BY <1>1, <1>2 DEF QuietWhileReading
  <2>2. s = disk.snapshot
    BY <2>1, <1>3 DEF AllOf
  <2>3. QED
    BY <2>1, <2>2, <1>1, <1>3, SnapshotTyped DEF FileHolds
<1>5. /\ s.size \in Nat /\ HeadEnd(s) \in Nat /\ ManifestOf(s) \in Nat /\ 32 <= HeadEnd(s)
      /\ HeadEnd(s) <= ManifestOf(s) /\ ManifestOf(s) <= s.size
      /\ wanted <= s.size
  BY <1>3, <1>4, SnapshotTyped
<1>6. Got
  <2>1. ~EndsEarly
    BY <1>3, <1>4 DEF EndsEarly
  <2>2. QED
    BY <2>1, <1>2 DEF RejectFixed, RejectShort, RejectHeader, RejectSections, RejectManifest
<1>7. Read = wanted
  BY <1>6 DEF Got
<1>8. CASE HeaderMissing
  <2>1. wanted < HeadEnd(s)
    <3>1. CASE wanted < 32
      BY <3>1, <1>3, <1>5
    <3>2. CASE ~(wanted < 32)
      <4>1. wanted < HeadEnd(Header)
        BY <3>2, <1>8 DEF HeaderMissing, FIXED_HEADER_BYTES
      <4>2. 24 <= Read
        BY <3>2, <1>3, <1>7
      <4>3. Header = s
        BY <4>2, <1>1, <1>4, ByteOfPiece DEF Header, AllOf
      <4>4. QED
        BY <4>1, <4>3
    <3>3. QED
      BY <3>1, <3>2
  <2>2. QED
    BY <2>1, <1>3, <1>5
<1>9. CASE ~HeaderMissing
  <2>1. /\ Header = s /\ Entries = DOMAIN s.table
        /\ \A i \in Entries : InTable(i) /\ Entry(i) = s.table[i]
        /\ \A b \in Nat : 1 <= b /\ b <= Read => Of(b) = s
    BY <1>1, <1>3, <1>4, <1>7, <1>9, OneSource
  <2>2. CASE whole
    <3>1. \E i \in Entries : ~InTable(i) \/ ~Inside(Entry(i))
      BY <2>2, <1>2, <1>6, <1>9, <1>3, <1>4
         DEF RejectFixed, RejectShort, EndsEarly, RejectHeader, RejectSections, RejectManifest
    <3>2. PICK i \in DOMAIN s.table : ~Inside(s.table[i])
      BY <2>1, <3>1
    <3>3. s.table[i].offset + s.table[i].length <= s.size
      BY <3>2, <1>3, SnapshotTyped DEF Complete
    <3>4. wanted # s.size
      BY <3>2, <3>3 DEF Inside
    <3>5. QED
      BY <2>2, <3>4, <1>3, <1>5
  <2>3. CASE ~whole
    <3>1. wanted < ManifestOf(s) \/ Of(ManifestOf(s)) # s
      BY <2>1, <2>3, <1>2, <1>6, <1>9, <1>3, <1>4
         DEF RejectFixed, RejectShort, EndsEarly, RejectHeader, RejectSections, RejectManifest
    <3>2. wanted < ManifestOf(s)
      BY <3>1, <2>1, <1>3, <1>5, <1>7
    <3>3. QED
      BY <3>2, <1>3, <1>5
  <2>4. QED
    BY <2>2, <2>3
<1>10. QED
  BY <1>8, <1>9

LEMMA RejectKeeps ==
  ASSUME ReadInv,
         RejectFixed \/ RejectShort \/ RejectHeader \/ RejectSections \/ RejectManifest
  PROVE  ReadInv'
<1>1. /\ reader \in {"head", "reading"} /\ reader' = "rejected"
      /\ UNCHANGED <<phase, disk, writing, whole, wanted, pieces, served, overlapped>>
  BY DEF RejectFixed, RejectShort, EndsEarly, RejectHeader, RejectSections, RejectManifest, Got,
         Reject, formatVars
<1>2. FileHolds' /\ ReaderHolds' /\ ServedWasRead' /\ QuietWhileReading'
  BY <1>1 DEF ReadInv, FileHolds, ReaderHolds, ServedWasRead, QuietWhileReading
<1>3. PiecesHold' /\ \A s : AllOf(s) => AllOf(s)'
  BY <1>1, ReaderStays DEF ReadInv
<1>4. QuietAtEnd'
  <2>1. SUFFICES ASSUME ~overlapped, pieces # <<>>
                 PROVE  /\ AllOf(pieces[1].of)'
                        /\ wanted < pieces[1].of.size
                        /\ ~whole => wanted < ManifestOf(pieces[1].of)
    BY <1>1 DEF QuietAtEnd, ManifestOf, HeadEnd
  <2>2. AllOf(disk.snapshot) /\ 1 \in DOMAIN pieces
    BY <2>1, <1>1, PiecesTyped DEF ReadInv, QuietWhileReading, PiecesHold
  <2>3. pieces[1].of = disk.snapshot
    BY <2>2 DEF AllOf
  <2>4. QED
    BY <2>1, <2>2, <2>3, <1>1, <1>3, RejectedIsPart DEF AllOf
<1>5. QED
  BY <1>2, <1>3, <1>4 DEF ReadInv

LEMMA CloseKeeps ==
  ASSUME ReadInv, Close
  PROVE  ReadInv'
<1>1. /\ reader' = "idle" /\ wanted' = 0 /\ pieces' = <<>>
      /\ UNCHANGED <<phase, disk, writing>>
  BY DEF Close, formatVars
<1>2. pieces' \in Seq([end : Nat, of : Snapshots]) /\ DOMAIN pieces' = {} /\ Len(pieces') = 0
  BY <1>1
<1>3. PiecesHold'
  BY <1>1, <1>2 DEF PiecesHold, Read
<1>4. FileHolds' /\ ReaderHolds' /\ ServedWasRead' /\ QuietWhileReading' /\ QuietAtEnd'
  BY <1>1 DEF ReadInv, FileHolds, ReaderHolds, ServedWasRead, QuietWhileReading, QuietAtEnd
<1>5. QED
  BY <1>3, <1>4 DEF ReadInv

(* The invariant of the file and its reader, for any writer and reader.    *)
THEOREM ReadInvariant == Spec => [](FormatInv /\ ReadInv)
<1>1. Init => FormatInv /\ ReadInv
  BY FormatInitHolds, ReadInitHolds DEF Init
<1>2. ASSUME FormatInv /\ ReadInv, [Next]_vars PROVE (FormatInv /\ ReadInv)'
  <2>1. FormatInv'
    BY <1>2, FileStepsAreFormatSteps, FormatStepKeeps
  <2>2. CASE AssembleNext \/ WriteFile \/ WritePiece \/ Written \/ Crash
    BY <1>2, <2>1, <2>2, WriterKeeps
  <2>3. CASE StatFile \/ StatHead
    BY <1>2, <2>1, <2>3, StatKeeps
  <2>4. CASE ReadFixed
    BY <1>2, <2>1, <2>4, ReadFixedKeeps
  <2>5. CASE ReadPiece
    BY <1>2, <2>1, <2>5, ReadPieceKeeps
  <2>6. CASE RejectFixed \/ RejectShort \/ RejectHeader \/ RejectSections \/ RejectManifest
    BY <1>2, <2>1, <2>6, RejectKeeps
  <2>7. CASE ServeFile \/ Inspect
    BY <1>2, <2>1, <2>7, ServeKeeps
  <2>8. CASE Close
    BY <1>2, <2>1, <2>8, CloseKeeps
  <2>9. CASE UNCHANGED vars
    <3>1. UNCHANGED <<phase, disk, writing, reader, whole, wanted, pieces, served, overlapped>>
      BY <2>9 DEF vars, formatVars, readerVars
    <3>2. FileHolds' /\ QuietWhileReading'
      BY <1>2, <3>1 DEF ReadInv, FileHolds, QuietWhileReading, AllOf
    <3>3. QED
      BY <1>2, <2>1, <3>1, <3>2, IdleReader DEF ReadInv
  <2>10. QED
    BY <1>2, <2>2, <2>3, <2>4, <2>5, <2>6, <2>7, <2>8, <2>9 DEF Next, Reading
<1>3. QED
  BY <1>1, <1>2, PTL DEF Spec

(* A file that comes in one read is one snapshot, whole, or is refused,    *)
(* whatever a writer did to it between the stat and the read (io.ts:34-53, *)
(* 76-104, format.ts:128-165): a beginning of a snapshot lacks the end of  *)
(* its last section, and a longer size is not reached.                     *)
THEOREM OneReadIsOneSnapshot == Spec => []OneReadOneSnapshot
<1>1. ASSUME FormatInv /\ ReadInv, reader = "served", Len(pieces) = 1
      PROVE  served = pieces[1].of.table /\ (whole => wanted = pieces[1].of.size)
  <2>1. PICK s : s = pieces[1].of
    OBVIOUS
  <2>2. PiecesHold /\ ServedWasRead
    BY <1>1 DEF ReadInv
  <2>3. s \in Snapshots /\ pieces # <<>> /\ DOMAIN pieces = {1} /\ wanted \in Nat
    <3>1. DOMAIN pieces = 1 .. 1 /\ wanted \in Nat
      BY <1>1, <2>2, PiecesTyped
    <3>2. DOMAIN pieces = {1} /\ pieces # <<>>
      BY <3>1, <1>1
    <3>3. QED
      BY <3>1, <3>2, <2>1, <2>2, PiecesTyped
  <2>4. Read = pieces[1].end /\ pieces[1].end <= s.size
    <3>1. pieces[1].end \in 1 .. s.size
      BY <2>1, <2>2, <2>3 DEF PiecesHold
    <3>2. Read = pieces[1].end
      BY <1>1, <2>3 DEF Read
    <3>3. QED
      BY <3>1, <3>2
  <2>5. AllOf(s)
    BY <2>1, <2>3 DEF AllOf
  <2>6. /\ Read = wanted /\ ~HeaderMissing /\ served = [i \in Entries |-> Entry(i)]
        /\ whole => \A i \in Entries : Inside(Entry(i))
    BY <1>1, <2>2 DEF ServedWasRead
  <2>7. /\ Entries = DOMAIN s.table /\ \A i \in Entries : Entry(i) = s.table[i]
        /\ [i \in Entries |-> Entry(i)] = s.table
    BY <2>2, <2>3, <2>5, <2>6, OneSource
  <2>8. whole => wanted = s.size
    <3>1. wanted <= s.size
      BY <2>4, <2>6
    <3>2. whole => \A i \in DOMAIN s.table : Inside(s.table[i])
      BY <2>6, <2>7
    <3>3. QED
      BY <2>3, <3>1, <3>2, AllInsideIsAll
  <2>9. QED
    BY <2>1, <2>6, <2>7, <2>8
<1>2. FormatInv /\ ReadInv => OneReadOneSnapshot
  BY <1>1 DEF OneReadOneSnapshot
<1>3. QED
  BY <1>2, ReadInvariant, PTL

(* A read that no writer meets serves all of the snapshot that was         *)
(* assembled, and refuses a file only where a writer died in it, in the    *)
(* head if only that was read (io.ts:34-53, 76-104, format.ts:128-165,     *)
(* 221-225), in however many pieces the file came.                         *)
THEOREM QuietReadsAreRight == Spec => []QuietReads
<1>1. ASSUME FormatInv /\ ReadInv, ~overlapped, pieces # <<>>, NEW s, s = pieces[1].of
      PROVE  /\ reader = "served" => served = s.table /\ wanted >= ManifestOf(s)
             /\ reader = "served" /\ whole => wanted = s.size
             /\ reader = "rejected" => wanted < s.size
             /\ reader = "rejected" /\ ~whole => wanted < ManifestOf(s)
  <2>1. PiecesHold /\ ServedWasRead /\ QuietAtEnd
    BY <1>1 DEF ReadInv
  <2>2. /\ reader = "rejected" => wanted < s.size
        /\ reader = "rejected" /\ ~whole => wanted < ManifestOf(s)
    BY <1>1, <2>1 DEF QuietAtEnd
  <2>3. ASSUME reader = "served"
        PROVE  /\ served = s.table /\ wanted >= ManifestOf(s)
               /\ whole => wanted = s.size
    <3>1. s \in Snapshots /\ Len(pieces) \in DOMAIN pieces /\ wanted \in Nat /\ Read \in Nat
      <4>1. DOMAIN pieces = 1 .. Len(pieces) /\ Len(pieces) \in Nat \ {0}
        BY <1>1, <2>1, PiecesTyped DEF PiecesHold
      <4>2. 1 \in DOMAIN pieces /\ Len(pieces) \in DOMAIN pieces
        BY <4>1
      <4>3. QED
        BY <4>2, <1>1, <2>1, PiecesTyped
    <3>2. AllOf(s)
      BY <1>1, <2>1, <2>3 DEF QuietAtEnd
    <3>3. Read <= s.size
      <4>1. Read = pieces[Len(pieces)].end /\ pieces[Len(pieces)].of = s
        BY <1>1, <3>1, <3>2 DEF Read, AllOf
      <4>2. QED
        BY <4>1, <2>1, <3>1, SnapshotTyped DEF PiecesHold
    <3>4. /\ Read = wanted /\ ~HeaderMissing /\ served = [i \in Entries |-> Entry(i)]
          /\ whole => \A i \in Entries : Inside(Entry(i))
          /\ ~whole => ManifestOf(Header) <= wanted
      BY <2>1, <2>3 DEF ServedWasRead
    <3>5. /\ Header = s /\ Entries = DOMAIN s.table /\ \A i \in Entries : Entry(i) = s.table[i]
          /\ [i \in Entries |-> Entry(i)] = s.table
      BY <2>1, <3>1, <3>2, <3>4, OneSource
    <3>6. whole => wanted = s.size
      <4>1. wanted <= s.size
        BY <3>3, <3>4
      <4>2. whole => \A i \in DOMAIN s.table : Inside(s.table[i])
        BY <3>4, <3>5
      <4>3. QED
        BY <3>1, <4>1, <4>2, AllInsideIsAll
    <3>7. wanted >= ManifestOf(s)
      BY <3>1, <3>4, <3>5, <3>6, SnapshotTyped
    <3>8. QED
      BY <3>4, <3>5, <3>6, <3>7
  <2>4. QED
    BY <2>2, <2>3
<1>2. FormatInv /\ ReadInv => QuietReads
  BY <1>1 DEF QuietReads
<1>3. QED
  BY <1>2, ReadInvariant, PTL

(* The state of the file and of its reader is of its type.                 *)
THEOREM FileTypeCorrect == Spec => []TypeOK
<1>1. ASSUME FormatInv, ReadInv PROVE TypeOK
  <2>1. /\ FormatTypeOK /\ FileHolds /\ ReaderHolds /\ wanted \in Nat /\ Read <= wanted
        /\ \A i \in 2 .. Len(pieces) : pieces[i - 1].end < pieces[i].end
    BY <1>1, PiecesTyped DEF FormatInv, ReadInv, PiecesHold
  <2>2. reader = "served" => \A i \in Entries : i \in DOMAIN served
    BY <1>1 DEF ReadInv, ServedWasRead
  <2>3. QED
    BY <2>1, <2>2 DEF TypeOK, FileHolds, ReaderHolds
<1>2. FormatInv /\ ReadInv => TypeOK
  BY <1>1
<1>3. QED
  BY <1>2, ReadInvariant, PTL

----------------------------------------------------------------------------
(* What a snapshot is made of, together.                                   *)

(* The parts that MCSnapshot runs side by side each behave as their own    *)
(* specification says, the file and the searches with their fairness: what *)
(* is proved of a part holds of it there.                                  *)
THEOREM PartsBehave ==
  PartsSpec => FairSpec /\ StringsSpec /\ TrigramSpec /\ SortedSpec /\ BucketsSpec
<1>1. PartsInit => Init /\ StringsInit /\ TrigramInit /\ SortedInit /\ BucketsInit
  BY DEF PartsInit
<1>2. [PartsNext]_allVars => /\ [Next]_vars
                             /\ [StringsNext]_stringsVars
                             /\ [TrigramNext]_trigramVars
                             /\ [SortedNext]_sortedVars
                             /\ [BucketsNext]_bucketsVars
  <2>1. CASE PartsNext
    BY <2>1, Zenon DEF PartsNext, NotFile, NotStrings, NotTrigrams, NotSorted, NotColumns
  <2>2. CASE UNCHANGED allVars
    BY <2>2 DEF allVars
  <2>3. QED
    BY <2>1, <2>2
<1>3. QED
  BY <1>1, <1>2, PTL DEF PartsSpec, FairSpec, Spec, StringsSpec, TrigramSpec, SortedSpec, BucketsSpec

(* The state of every part is of its type: the fields of a file and of its *)
(* reader, the table of strings, the buckets and the scratch of the        *)
(* trigram index, the keys of a sorted index and the columns.              *)
THEOREM PartsTypesHold == PartsSpec => []PartsTypeOK
<1>1. /\ TypeOK /\ StringsTypeOK /\ TrigramTypeOK /\ SortedTypeOK /\ BucketsTypeOK
      => PartsTypeOK
  BY DEF PartsTypeOK
<1>2. QED
  BY <1>1, PartsBehave, FileTypeCorrect, StringsTypeCorrect, TrigramTypesHold,
     SortedTypesHold, BucketsTypesHold, PTL DEF FairSpec
=============================================================================
