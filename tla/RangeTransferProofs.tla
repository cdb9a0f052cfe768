-------------------------- MODULE RangeTransferProofs --------------------------
(***************************************************************************)
(* Proofs about RangeTransfer, for every page size, cap and set of entries. *)
(***************************************************************************)
EXTENDS RangeTransfer, FiniteSetTheorems, SequenceTheorems, TLAPS

-----------------------------------------------------------------------------
(* Arithmetic of pages.                                                      *)

LEMMA Division ==
  ASSUME NEW a \in Nat, NEW b \in Nat, b > 0
  PROVE  /\ a \div b \in Nat /\ a % b \in 0..(b - 1)
         /\ a = b * (a \div b) + (a % b)
  OBVIOUS

LEMMA Products ==
  ASSUME NEW b \in Nat, NEW m \in Nat, NEW n \in Nat, m < n
  PROVE  b * m + b <= b * n /\ b * m \in Nat /\ b * n \in Nat
  <1>1. PICK d \in Nat : n = m + 1 + d
    <2>1. n - m - 1 \in Nat
      OBVIOUS
    <2> QED BY <2>1
  <1>2. b * n = b * m + b + b * d /\ b * d \in Nat /\ b * m \in Nat /\ b * n \in Nat
    BY <1>1
  <1> QED BY <1>2

LEMMA Multiples ==
  ASSUME NEW b \in Nat, b > 0, NEW k \in Nat
  PROVE  /\ b * k \in Nat /\ k * b = b * k
         /\ (b * k) \div b = k /\ (b * k) % b = 0
  OBVIOUS

\* Pages as the records the steps make of them.
PageType == [offset : Nat, entries : Seq(Entries)]
UnitType == [kind : Units, page : PageType]

\* The page that holds the i-th entry has a slot.
LEMMA SlotOfEntry ==
  ASSUME NEW L \in Nat, NEW i \in 1..L
  PROVE  /\ (i - 1) \div PageSize \in Slots(L)
         /\ PageSize * ((i - 1) \div PageSize) < i
         /\ i <= PageSize * ((i - 1) \div PageSize) + PageSize
  <1> DEFINE k == (i - 1) \div PageSize
             n == PageCount(L)
  <1>0. PageSize \in Nat /\ PageSize > 0
    BY RangeAssumption
  <1>1. k \in Nat /\ PageSize * k <= i - 1 /\ i - 1 < PageSize * k + PageSize
    <2>1. i - 1 \in Nat
      OBVIOUS
    <2>2. (i - 1) % PageSize \in 0..(PageSize - 1) /\ k \in Nat
          /\ i - 1 = PageSize * k + ((i - 1) % PageSize)
      BY <1>0, <2>1, Division
    <2>3. PageSize * k \in Nat
      BY <1>0, <2>2, Multiples
    <2> QED BY <1>0, <2>2, <2>3
  <1>2. n \in Nat /\ L + PageSize - 1 < PageSize * n + PageSize
    <2>1. L + PageSize - 1 \in Nat
      BY <1>0
    <2>2. /\ (L + PageSize - 1) % PageSize \in 0..(PageSize - 1) /\ n \in Nat
          /\ L + PageSize - 1 = PageSize * n + ((L + PageSize - 1) % PageSize)
      BY <1>0, <2>1, Division DEF PageCount
    <2>3. PageSize * n \in Nat
      BY <1>0, <2>2, Multiples
    <2> QED BY <1>0, <2>1, <2>2, <2>3
  <1>3. k < n
    <2> HIDE DEF k, n
    <2>1. SUFFICES ASSUME n <= k PROVE FALSE
      BY <1>1, <1>2
    <2>2. PageSize * n <= PageSize * k
      <3>1. CASE n = k
        BY <3>1, <1>0, <1>1, Multiples
      <3>2. CASE n < k
        BY <3>2, <1>0, <1>1, <1>2, Products
      <3> QED BY <2>1, <3>1, <3>2, <1>1, <1>2
    <2>3. PageSize * n \in Nat /\ PageSize * k \in Nat
      BY <1>0, <1>1, <1>2, Multiples
    <2> QED BY <1>0, <1>1, <1>2, <2>2, <2>3
  <1>4. PageSize * k \in Nat
    BY <1>0, <1>1, Multiples
  <1> QED BY <1>0, <1>1, <1>2, <1>3, <1>4 DEF Slots

\* An aligned page that starts in the array has a slot, and starts where the
\* slot does.
LEMMA AlignedSlot ==
  ASSUME NEW L \in Nat, NEW page \in PageType, page.offset % PageSize = 0, page.offset < L
  PROVE  Slot(page) \in Slots(L) /\ page.offset = PageSize * Slot(page)
  <1>0. PageSize \in Nat /\ PageSize > 0 /\ page.offset \in Nat
    BY RangeAssumption DEF PageType
  <1>1. ASSUME NEW o \in Nat, o < L PROVE o \div PageSize \in Slots(L)
    <2>1. o + 1 \in 1..L /\ (o + 1) - 1 = o
      BY <1>1
    <2>2. ((o + 1) - 1) \div PageSize \in Slots(L)
      BY <2>1, SlotOfEntry
    <2> QED BY <2>1, <2>2
  <1>2. Slot(page) \in Slots(L)
    BY <1>0, <1>1 DEF Slot
  <1>3. page.offset \div PageSize \in Nat
        /\ page.offset = PageSize * (page.offset \div PageSize) + (page.offset % PageSize)
    BY <1>0, Division
  <1>4. PageSize * (page.offset \div PageSize) \in Nat
    BY <1>0, <1>3, Multiples
  <1> QED BY <1>0, <1>2, <1>3, <1>4 DEF Slot

\* Pages of different slots do not meet.
LEMMA Apart ==
  ASSUME NEW L \in Nat, NEW p \in PageType, NEW q \in PageType,
         p.offset % PageSize = 0, p.offset < L, q.offset % PageSize = 0, q.offset < L,
         Slot(p) # Slot(q)
  PROVE  p.offset + PageSize <= q.offset \/ q.offset + PageSize <= p.offset
  <1>1. /\ Slot(p) \in Slots(L) /\ p.offset = PageSize * Slot(p)
        /\ Slot(q) \in Slots(L) /\ q.offset = PageSize * Slot(q)
    BY AlignedSlot
  <1>2. Slot(p) \in Nat /\ Slot(q) \in Nat /\ PageSize \in Nat
    BY <1>1, RangeAssumption DEF Slots
  <1>3. CASE Slot(p) < Slot(q)
    BY <1>1, <1>2, <1>3, Products
  <1>4. CASE Slot(q) < Slot(p)
    BY <1>1, <1>2, <1>4, Products
  <1> QED BY <1>2, <1>3, <1>4

LEMMA SlotsFinite ==
  ASSUME NEW L \in Nat
  PROVE  /\ Slots(L) \subseteq Nat /\ IsFiniteSet(Slots(L))
         /\ PageCount(L) \in Nat /\ Cardinality(Slots(L)) = PageCount(L)
  <1>1. PageCount(L) \in Nat
    <2>1. L + PageSize - 1 \in Nat /\ PageSize \in Nat /\ PageSize > 0
      BY RangeAssumption
    <2> QED BY <2>1, Division DEF PageCount
  <1>2. IsFiniteSet(0..(PageCount(L) - 1))
        /\ Cardinality(0..(PageCount(L) - 1)) =
              IF 0 > PageCount(L) - 1 THEN 0 ELSE (PageCount(L) - 1) - 0 + 1
    <2>1. 0 \in Int /\ PageCount(L) - 1 \in Int
      BY <1>1
    <2> QED BY <2>1, FS_Interval, Zenon
  <1> QED BY <1>1, <1>2 DEF Slots

-----------------------------------------------------------------------------
(* The assembler.                                                            *)
AsmType(a) ==
  /\ a.lens \in Seq(Entries) /\ a.pages \in Nat
  /\ a.filled \in [Slots(Len(a.lens)) -> BOOLEAN]
Filled(a) == {s \in Slots(Len(a.lens)) : a.filled[s]}

LEMMA NewTyped ==
  ASSUME NEW count \in Nat
  PROVE  /\ AsmType(NewAssembler(count)) /\ Len(NewAssembler(count).lens) = count
         /\ Filled(NewAssembler(count)) = {} /\ NewAssembler(count).pages = 0
  <1> DEFINE a == NewAssembler(count)
  <1>1. a.lens = [i \in 1..count |-> 0] /\ a.pages = 0
        /\ a.filled = [s \in Slots(count) |-> FALSE]
    BY DEF NewAssembler
  <1>2. a.lens \in Seq(Entries) /\ Len(a.lens) = count
    BY <1>1, RangeAssumption
  <1>3. a.filled \in [Slots(Len(a.lens)) -> BOOLEAN]
    BY <1>1, <1>2
  <1>4. Filled(a) = {}
    BY <1>1, <1>2 DEF Filled
  <1> QED BY <1>1, <1>2, <1>3, <1>4 DEF AsmType

LEMMA PlaceTyped ==
  ASSUME NEW a, AsmType(a), NEW page \in PageType, Fits(a.lens, page)
  PROVE  /\ AsmType(Place(a, page)) /\ Len(Place(a, page).lens) = Len(a.lens)
         /\ Slot(page) \in Slots(Len(a.lens))
         /\ Filled(Place(a, page)) = Filled(a) \cup {Slot(page)}
         /\ Place(a, page).pages = a.pages + 1
  <1> DEFINE L == Len(a.lens)
             b == Place(a, page)
  <1>0. L \in Nat /\ a.lens \in [1..L -> Entries]
    BY LenProperties, SeqDef DEF AsmType
  <1>1. /\ b.lens = [i \in 1..L |->
               IF Within(i, page) THEN page.entries[i - page.offset] ELSE a.lens[i]]
        /\ b.filled = [a.filled EXCEPT ![Slot(page)] = TRUE]
        /\ b.pages = a.pages + 1
    BY DEF Place
  <1>2. Slot(page) \in Slots(L)
    BY <1>0, AlignedSlot DEF Fits
  <1>3. b.lens \in Seq(Entries) /\ Len(b.lens) = L
    <2>1. ASSUME NEW i \in 1..L, Within(i, page) PROVE page.entries[i - page.offset] \in Entries
      <3>1. page.offset \in Nat /\ page.entries \in Seq(Entries)
        BY DEF PageType
      <3>2. i - page.offset \in 1..Len(page.entries)
        BY <2>1, <3>1, <1>0 DEF Within, Length
      <3> QED BY <3>1, <3>2
    <2>2. b.lens \in [1..L -> Entries]
      BY <1>0, <1>1, <2>1
    <2> QED BY <1>0, <2>2
  <1>4. b.filled \in [Slots(L) -> BOOLEAN]
    BY <1>1, <1>2 DEF AsmType
  <1>5. Filled(b) = Filled(a) \cup {Slot(page)}
    BY <1>1, <1>2, <1>3 DEF Filled, AsmType
  <1> QED BY <1>1, <1>2, <1>3, <1>4, <1>5 DEF AsmType

-----------------------------------------------------------------------------
(* The pages of an honest holder.                                            *)
PageOf(lens, k) ==
  Page(k * PageSize, SubSeq(lens, k * PageSize + 1, Smaller((k + 1) * PageSize, Len(lens))))

LEMMA SlotStarts ==
  ASSUME NEW L \in Nat, NEW k \in Slots(L)
  PROVE  PageSize * k \in Nat /\ PageSize * k < L
  <1> DEFINE n == PageCount(L)
  <1>0. PageSize \in Nat /\ PageSize > 0
    BY RangeAssumption
  <1>1. L + PageSize - 1 \in Nat
    BY <1>0
  <1>2. /\ (L + PageSize - 1) % PageSize \in 0..(PageSize - 1) /\ n \in Nat
        /\ L + PageSize - 1 = PageSize * n + ((L + PageSize - 1) % PageSize)
    BY <1>0, <1>1, Division DEF PageCount
  <1>3. k \in Nat /\ k < n
    BY <1>2 DEF Slots
  <1>4. PageSize * k + PageSize <= PageSize * n /\ PageSize * k \in Nat /\ PageSize * n \in Nat
    BY <1>0, <1>2, <1>3, Products
  <1> HIDE DEF n
  <1> QED BY <1>0, <1>1, <1>2, <1>4

\* What split_chunk_lens_pages makes: aligned pages, full but for the last.
LEMMA PageOfProperties ==
  ASSUME NEW lens \in Seq(Entries), NEW k \in Slots(Len(lens))
  PROVE  /\ PageOf(lens, k) \in PageType
         /\ PageOf(lens, k).offset = PageSize * k /\ PageOf(lens, k).offset % PageSize = 0
         /\ Slot(PageOf(lens, k)) = k
         /\ Length(PageOf(lens, k)) = Smaller(PageSize, Len(lens) - PageOf(lens, k).offset)
         /\ \A i \in 1..Length(PageOf(lens, k)) :
              PageOf(lens, k).entries[i] = lens[PageOf(lens, k).offset + i]
  <1> DEFINE L == Len(lens)
             o == k * PageSize
             e == Smaller((k + 1) * PageSize, L)
             page == PageOf(lens, k)
  <1>0. PageSize \in Nat /\ PageSize > 0 /\ L \in Nat /\ k \in Nat
    BY RangeAssumption, LenProperties DEF Slots
  <1>1. o = PageSize * k /\ o \in Nat /\ o < L /\ o \div PageSize = k /\ o % PageSize = 0
    BY <1>0, SlotStarts, Multiples
  <1>2. (k + 1) * PageSize = o + PageSize
    BY <1>0
  <1>3. e = Smaller(o + PageSize, L) /\ e \in Nat /\ o + 1 <= e /\ e <= L
        /\ e - o = Smaller(PageSize, L - o)
    <2> HIDE DEF o, L
    <2> QED BY <1>0, <1>1, <1>2 DEF Smaller
  <1>4. page = [offset |-> o, entries |-> SubSeq(lens, o + 1, e)]
    BY DEF PageOf, Page
  <1>5. /\ SubSeq(lens, o + 1, e) \in Seq(Entries)
        /\ Len(SubSeq(lens, o + 1, e)) = e - o
        /\ \A i \in 1..(e - o) : SubSeq(lens, o + 1, e)[i] = lens[o + i]
    <2> HIDE DEF o, e
    <2>1. o + 1 \in 1..Len(lens) + 1 /\ e \in 1..Len(lens) /\ e \in o + 1 - 1 .. Len(lens)
      BY <1>0, <1>1, <1>3
    <2> QED BY <1>1, <1>3, <2>1, SubSeqProperties
  <1> HIDE DEF o, e
  <1>6. page \in PageType /\ page.offset = o /\ page.entries = SubSeq(lens, o + 1, e)
    <2>1. page.offset = o /\ page.entries = SubSeq(lens, o + 1, e)
      <3> HIDE DEF page
      <3> QED BY <1>4
    <2>2. [offset |-> o, entries |-> SubSeq(lens, o + 1, e)] \in PageType
      BY <1>1, <1>5 DEF PageType
    <2> QED BY <1>4, <2>1, <2>2
  <1> QED BY <1>1, <1>3, <1>5, <1>6 DEF Slot, Length

LEMMA SplitPagesAre ==
  ASSUME NEW lens
  PROVE  SplitPages(lens) = {PageOf(lens, k) : k \in Slots(Len(lens))}
  BY DEF SplitPages, PageOf

-----------------------------------------------------------------------------
(* The invariant of the transfer.  AssemblerInv needs the types of what is   *)
(* on its way; WholeOrNothing that an array is only yielded when complete.   *)
TypeInv ==
  /\ TypeOK
  /\ unsent \subseteq PageType /\ stream \in Seq(UnitType) /\ accepted \subseteq PageType
PlacedInv == SlotsCounted /\ SlotsTaken /\ TakenOnce /\ PagesPlaced
ReaderInv ==
  /\ reader = "idle" => accepted = {} /\ asm = NewAssembler(0)
  /\ reader = "whole" => IsComplete(asm)

LEMMA EmptyStream == <<>> \in Seq(UnitType) /\ Len(<<>>) = 0
  OBVIOUS

LEMMA PagesTyped ==
  ASSUME NEW count \in Nat
  PROVE  Pages(count) \subseteq PageType
  <1> SUFFICES ASSUME NEW p \in Pages(count) PROVE p \in PageType
    OBVIOUS
  <1>1. PICK offset \in 0..(count + PageSize),
             entries \in UNION {[1..n -> Entries] : n \in 0..(PageSize + 1)} :
               p = Page(offset, entries)
    BY DEF Pages
  <1>2. PICK n \in 0..(PageSize + 1) : entries \in [1..n -> Entries]
    BY <1>1
  <1>3. entries \in Seq(Entries)
    BY <1>2, RangeAssumption
  <1>4. offset \in Nat
    BY RangeAssumption
  <1> QED BY <1>1, <1>3, <1>4 DEF Page, PageType

LEMMA AnythingTyped == Anything(MaxCount) \subseteq UnitType
  <1>1. Page0 \in PageType
    <2>1. <<>> \in Seq(Entries)
      OBVIOUS
    <2> QED BY <2>1 DEF Page0, Page, PageType
  <1>2. Pages(MaxCount) \subseteq PageType
    BY PagesTyped, RangeAssumption
  <1> QED BY <1>1, <1>2 DEF Anything, Unit, UnitType, Units

LEMMA SplitTyped ==
  ASSUME NEW lens \in Seq(Entries)
  PROVE  SplitPages(lens) \subseteq PageType
  BY SplitPagesAre, PageOfProperties

LEMMA InitTyped == Init => TypeInv /\ PlacedInv /\ ReaderInv
  <1> SUFFICES ASSUME Init PROVE TypeInv /\ PlacedInv /\ ReaderInv
    OBVIOUS
  <1>1. AsmType(asm) /\ Len(asm.lens) = 0 /\ Filled(asm) = {} /\ asm.pages = 0
    BY NewTyped DEF Init
  <1>2. layout \in Seq(Entries)
    <2>1. <<>> \in Seq(Entries)
      OBVIOUS
    <2> QED BY <2>1, RangeAssumption DEF Init
  <1>3. TypeInv
    BY <1>1, <1>2, SplitTyped, EmptyStream DEF Init, TypeInv, TypeOK, AsmType, ReaderSteps
  <1>4. Slots(Len(asm.lens)) \subseteq Nat /\ \A s \in Slots(Len(asm.lens)) : ~asm.filled[s]
    BY <1>1, SlotsFinite DEF Filled
  <1>5. SlotsCounted
    BY <1>1, FS_EmptySet DEF SlotsCounted, Filled
  <1> QED BY <1>3, <1>4, <1>5
          DEF Init, PlacedInv, SlotsTaken, TakenOnce, PagesPlaced, ReaderInv

\* What the steps leave of the assembler.
AsmKept ==
  /\ UNCHANGED <<asm, accepted>>
  /\ reader' = "idle" => reader = "idle"
  /\ reader' = "whole" => reader = "whole" \/ IsComplete(asm)
AsmNew ==
  /\ reader = "idle" /\ reader' = "layout" /\ accepted' = accepted
  /\ \E count \in Nat : asm' = NewAssembler(count)
AsmTakes ==
  /\ reader = "layout" /\ reader' = "layout"
  /\ \E page \in PageType :
       Accepts(asm, page) /\ asm' = Place(asm, page) /\ accepted' = accepted \cup {page}

LEMMA HeadTyped ==
  ASSUME TypeInv, stream # <<>>
  PROVE  /\ Head(stream) = stream[1] /\ Head(stream) \in UnitType
         /\ Head(stream).page \in PageType
         /\ Tail(stream) \in Seq(UnitType)
  <1>1. stream \in Seq(UnitType)
    BY DEF TypeInv
  <1>2. Head(stream) \in UnitType /\ Tail(stream) \in Seq(UnitType)
    BY <1>1, HeadTailProperties
  <1> QED BY <1>1, <1>2 DEF UnitType

LEMMA AsmShapes == TypeInv /\ [Next]_vars => AsmKept \/ AsmNew \/ AsmTakes
  <1> SUFFICES ASSUME TypeInv, [Next]_vars PROVE AsmKept \/ AsmNew \/ AsmTakes
    OBVIOUS
  <1>1. ASSUME NEW count \in 0..(MaxCount + 1), Begin(count) PROVE AsmKept \/ AsmNew
    <2>1. count \in Nat
      BY RangeAssumption
    <2> QED BY <1>1, <2>1 DEF Begin, AsmKept, AsmNew
  <1>2. ASSUME NEW page \in unsent, NEW payload, NEW proof, SendPage(page, payload, proof)
        PROVE  AsmKept
    BY <1>2 DEF SendPage, AsmKept
  <1>3. ASSUME NEW unit, SendAnything(unit) PROVE AsmKept
    BY <1>3 DEF SendAnything, AsmKept
  <1>4. ASSUME NEW end, Cut(end) PROVE AsmKept
    BY <1>4 DEF Cut, AsmKept
  <1>5. CASE ReadPage
    <2>1. Head(stream).page \in PageType
      BY <1>5, HeadTyped DEF ReadPage
    <2> QED BY <1>5, <2>1 DEF ReadPage, AsmKept, AsmTakes
  <1>6. CASE ReadBad
    BY <1>6 DEF ReadBad, AsmKept
  <1>7. CASE ReadEnd
    BY <1>7 DEF ReadEnd, AsmKept
  <1>8. CASE UNCHANGED vars
    BY <1>8 DEF vars, AsmKept
  <1> QED BY <1>1, <1>2, <1>3, <1>4, <1>5, <1>6, <1>7, <1>8 DEF Next

LEMMA AsmTyped ==
  ASSUME TypeInv, AsmKept \/ AsmNew \/ AsmTakes
  PROVE  AsmType(asm)' /\ accepted' \subseteq PageType
  <1>0. AsmType(asm) /\ accepted \subseteq PageType
    BY DEF TypeInv, TypeOK, AsmType
  <1>1. CASE AsmKept
    BY <1>0, <1>1 DEF AsmKept, AsmType
  <1>2. CASE AsmNew
    BY <1>0, <1>2, NewTyped DEF AsmNew, AsmType
  <1>3. CASE AsmTakes
    <2>1. PICK page \in PageType :
            Accepts(asm, page) /\ asm' = Place(asm, page) /\ accepted' = accepted \cup {page}
      BY <1>3 DEF AsmTakes
    <2>2. AsmType(Place(asm, page))
      BY <1>0, <2>1, PlaceTyped DEF Accepts
    <2> QED BY <1>0, <2>1, <2>2 DEF AsmType
  <1> QED BY <1>1, <1>2, <1>3

LEMMA TypeKeeps == TypeInv /\ [Next]_vars => TypeInv'
  <1> SUFFICES ASSUME TypeInv, [Next]_vars PROVE TypeInv'
    OBVIOUS
  <1> DEFINE Rest ==
        /\ honest' \in BOOLEAN /\ layout' \in Seq(Entries) /\ refused' \in BOOLEAN
        /\ cut' \in {"no"} \cup Ends /\ reader' \in ReaderSteps
        /\ unsent' \subseteq PageType /\ stream' \in Seq(UnitType)
  <1>0. /\ honest \in BOOLEAN /\ layout \in Seq(Entries) /\ refused \in BOOLEAN
        /\ cut \in {"no"} \cup Ends /\ reader \in ReaderSteps
        /\ unsent \subseteq PageType /\ stream \in Seq(UnitType)
    BY DEF TypeInv, TypeOK
  <1>1. ASSUME NEW count, Begin(count) PROVE Rest
    BY <1>0, <1>1 DEF Begin, holder, ReaderSteps
  <1>2. ASSUME NEW unit \in UnitType, Writes(unit) PROVE stream' \in Seq(UnitType)
    BY <1>0, <1>2, AppendProperties DEF Writes
  <1>3. ASSUME NEW page \in unsent, NEW payload, NEW proof, SendPage(page, payload, proof)
        PROVE  Rest
    <2>1. Unit("frame", page) \in UnitType
      BY <1>0 DEF Unit, UnitType, Units
    <2>2. stream' \in Seq(UnitType) /\ refused' \in BOOLEAN
      BY <1>0, <1>2, <1>3, <2>1 DEF SendPage
    <2> QED BY <1>0, <1>3, <2>2 DEF SendPage
  <1>4. ASSUME NEW unit \in Anything(MaxCount), SendAnything(unit) PROVE Rest
    BY <1>0, <1>2, <1>4, AnythingTyped DEF SendAnything, holder
  <1>5. ASSUME NEW end \in Ends, Cut(end) PROVE Rest
    BY <1>0, <1>5 DEF Cut, holder
  <1>6. ASSUME ReadPage \/ ReadBad PROVE Rest
    <2>1. Tail(stream) \in Seq(UnitType)
      BY <1>6, HeadTyped DEF ReadPage, ReadBad
    <2> QED BY <1>0, <1>6, <2>1 DEF ReadPage, ReadBad, holder, ReaderSteps
  <1>7. ASSUME ReadEnd PROVE Rest
    BY <1>0, <1>7 DEF ReadEnd, holder, ReaderSteps
  <1>8. ASSUME UNCHANGED vars PROVE Rest
    BY <1>0, <1>8 DEF vars, holder
  <1>9. Rest
    BY <1>1, <1>3, <1>4, <1>5, <1>6, <1>7, <1>8 DEF Next
  <1>10. AsmType(asm)' /\ accepted' \subseteq PageType
    BY AsmShapes, AsmTyped
  <1> QED BY <1>9, <1>10 DEF TypeInv, TypeOK, AsmType, PageType

\* A page that is accepted stands where no other does.
LEMMA TakenPlaces ==
  ASSUME TypeInv, PlacedInv, NEW page \in PageType, Accepts(asm, page),
         asm' = Place(asm, page), accepted' = accepted \cup {page}
  PROVE  PlacedInv'
  <1> DEFINE L == Len(asm.lens)
  <1>0. /\ AsmType(asm) /\ L \in Nat /\ PageSize \in Nat
        /\ Fits(asm.lens, page) /\ ~asm.filled[Slot(page)]
    BY RangeAssumption, LenProperties DEF TypeInv, TypeOK, AsmType, Accepts
  <1>1. /\ AsmType(asm') /\ Len(asm'.lens) = L /\ Slot(page) \in Slots(L)
        /\ Filled(asm') = Filled(asm) \cup {Slot(page)} /\ asm'.pages = asm.pages + 1
    BY <1>0, PlaceTyped
  <1>2. asm'.filled = [asm.filled EXCEPT ![Slot(page)] = TRUE]
        /\ asm'.lens = [i \in 1..L |->
              IF Within(i, page) THEN page.entries[i - page.offset] ELSE asm.lens[i]]
    BY DEF Place
  <1>3. SlotsCounted'
    <2>1. IsFiniteSet(Filled(asm)) /\ Slot(page) \notin Filled(asm)
      <3>1. Filled(asm) \subseteq Slots(L) /\ IsFiniteSet(Slots(L))
        BY <1>0, SlotsFinite DEF Filled
      <3> QED BY <1>0, <3>1, FS_Subset DEF Filled
    <2>2. Cardinality(Filled(asm')) = Cardinality(Filled(asm)) + 1
      BY <1>1, <2>1, FS_AddElement
    <2>3. Cardinality(Filled(asm)) = asm.pages
      BY DEF PlacedInv, SlotsCounted, Filled
    <2> QED BY <1>1, <2>2, <2>3 DEF SlotsCounted, Filled
  <1>4. SlotsTaken'
    <2>1. \A s \in Slots(L) : asm'.filled[s] <=> (asm.filled[s] \/ s = Slot(page))
      BY <1>0, <1>1, <1>2 DEF AsmType
    <2>2. \A s \in Slots(L) : asm.filled[s] <=> \E q \in accepted : Slot(q) = s
      BY DEF PlacedInv, SlotsTaken
    <2> QED BY <1>1, <2>1, <2>2 DEF SlotsTaken
  <1>5. \A q \in accepted : Slot(q) # Slot(page)
    BY <1>0, <1>1 DEF PlacedInv, SlotsTaken
  <1>6. TakenOnce'
    BY <1>5 DEF PlacedInv, TakenOnce
  <1>7. PagesPlaced'
    <2> SUFFICES ASSUME NEW q \in accepted'
                 PROVE  /\ Fits(asm'.lens, q)
                        /\ \A i \in 1..Length(q) : asm'.lens[q.offset + i] = q.entries[i]
      BY DEF PagesPlaced
    <2>1. Fits(asm.lens, q) /\ q \in PageType
      BY <1>0 DEF PlacedInv, PagesPlaced, TypeInv
    <2>2. Fits(asm'.lens, q)
      BY <1>1, <2>1 DEF Fits
    <2>3. /\ q.offset \in Nat /\ q.entries \in Seq(Entries) /\ Length(q) \in Nat
          /\ q.offset + Length(q) <= L /\ Length(q) <= PageSize
          /\ page.offset \in Nat /\ Length(page) \in Nat /\ Length(page) <= PageSize
      BY <1>0, <2>1, LenProperties DEF PageType, Fits, Length
    <2> SUFFICES ASSUME NEW i \in 1..Length(q) PROVE asm'.lens[q.offset + i] = q.entries[i]
      BY <2>2
    <2>4. q.offset + i \in 1..L /\ (q.offset + i) - q.offset = i
      BY <1>0, <2>3
    <2>5. CASE q = page
      <3>1. Within(q.offset + i, page)
        BY <2>3, <2>5 DEF Within
      <3> QED BY <1>2, <2>4, <2>5, <3>1
    <2>6. CASE q # page
      <3>1. q \in accepted /\ Slot(q) # Slot(page)
        BY <1>5, <2>6
      <3>2. q.offset + PageSize <= page.offset \/ page.offset + PageSize <= q.offset
        BY <1>0, <2>1, <3>1, Apart DEF Fits
      <3>3. ~Within(q.offset + i, page)
        BY <1>0, <2>3, <3>2 DEF Within
      <3> QED BY <1>2, <2>4, <3>1, <3>3 DEF PlacedInv, PagesPlaced
    <2> QED BY <2>5, <2>6
  <1> QED BY <1>3, <1>4, <1>6, <1>7 DEF PlacedInv

LEMMA NewPlaces ==
  ASSUME accepted = {}, NEW count \in Nat, asm' = NewAssembler(count), accepted' = accepted
  PROVE  PlacedInv'
  <1>1. Filled(asm') = {} /\ asm'.pages = 0
    BY NewTyped
  <1>2. SlotsCounted'
    BY <1>1, FS_EmptySet DEF SlotsCounted, Filled
  <1>3. \A s \in Slots(Len(asm'.lens)) : ~asm'.filled[s]
    BY <1>1 DEF Filled
  <1> QED BY <1>2, <1>3 DEF PlacedInv, SlotsTaken, TakenOnce, PagesPlaced

LEMMA PlacedKeeps ==
  ASSUME TypeInv, PlacedInv, ReaderInv, [Next]_vars
  PROVE  PlacedInv' /\ ReaderInv'
  <1>1. CASE AsmKept
    <2>1. PlacedInv'
      BY <1>1 DEF AsmKept, PlacedInv, SlotsCounted, SlotsTaken, TakenOnce, PagesPlaced
    <2> QED BY <1>1, <2>1 DEF AsmKept, ReaderInv
  <1>2. CASE AsmNew
    BY <1>2, NewPlaces DEF AsmNew, ReaderInv
  <1>3. CASE AsmTakes
    BY <1>3, TakenPlaces DEF AsmTakes, ReaderInv
  <1> QED BY <1>1, <1>2, <1>3, AsmShapes

LEMMA TransferInvariant == Spec => [](TypeInv /\ PlacedInv /\ ReaderInv)
  <1>1. TypeInv /\ PlacedInv /\ ReaderInv /\ [Next]_vars => (TypeInv /\ PlacedInv /\ ReaderInv)'
    BY TypeKeeps, PlacedKeeps
  <1> QED BY InitTyped, <1>1, PTL DEF Spec

\* The assembler's slots, count, pages and entries agree after any sequence of
\* pages, for every page size and cap (ChunkLensAssembler, src/mux.rs:936).
THEOREM AssemblerCorrect == Spec => []AssemblerInv
  <1>1. TypeInv /\ PlacedInv => AssemblerInv
    BY DEF TypeInv, PlacedInv, AssemblerInv
  <1> QED BY TransferInvariant, <1>1, PTL

-----------------------------------------------------------------------------
(* Complete means every slot, and every slot means every entry.              *)
LEMMA AllSlots ==
  ASSUME TypeInv, PlacedInv, IsComplete(asm)
  PROVE  \A s \in Slots(Len(asm.lens)) : \E page \in accepted : Slot(page) = s
  <1> DEFINE L == Len(asm.lens)
  <1>0. L \in Nat /\ Filled(asm) \subseteq Slots(L)
    BY LenProperties DEF TypeInv, TypeOK, Filled
  <1>1. Cardinality(Filled(asm)) = Cardinality(Slots(L)) /\ IsFiniteSet(Slots(L))
    BY <1>0, SlotsFinite DEF PlacedInv, SlotsCounted, Filled, IsComplete
  <1>2. Filled(asm) = Slots(L)
    BY <1>0, <1>1, FS_Subset
  <1> QED BY <1>2 DEF Filled, PlacedInv, SlotsTaken

LEMMA AllEntries ==
  ASSUME TypeInv, PlacedInv, IsComplete(asm), NEW i \in 1..Len(asm.lens)
  PROVE  \E page \in accepted : Within(i, page) /\ asm.lens[i] = page.entries[i - page.offset]
  <1> DEFINE L == Len(asm.lens)
             k == (i - 1) \div PageSize
  <1>0. L \in Nat /\ PageSize \in Nat
    BY LenProperties, RangeAssumption DEF TypeInv, TypeOK
  <1>1. k \in Slots(L) /\ PageSize * k < i /\ i <= PageSize * k + PageSize
    BY <1>0, SlotOfEntry
  <1>2. PICK page \in accepted : Slot(page) = k
    BY <1>1, AllSlots
  <1>3. Fits(asm.lens, page) /\ page \in PageType
    BY DEF PlacedInv, PagesPlaced, TypeInv
  <1>4. page.offset = PageSize * k
    BY <1>0, <1>2, <1>3, AlignedSlot DEF Fits
  <1>5. page.offset \in Nat /\ Length(page) = Smaller(PageSize, L - page.offset)
    BY <1>3 DEF Fits, PageType
  <1> HIDE DEF k
  <1>6. Within(i, page) /\ i - page.offset \in 1..Length(page)
        /\ page.offset + (i - page.offset) = i
    BY <1>0, <1>1, <1>4, <1>5 DEF Within, Smaller
  <1>7. asm.lens[page.offset + (i - page.offset)] = page.entries[i - page.offset]
    BY <1>6 DEF PlacedInv, PagesPlaced
  <1> QED BY <1>6, <1>7

\* An array that is yielded is the peer's to the last entry, however its pages
\* were ordered and wherever its stream ended (into_chunk_lens,
\* src/mux.rs:1061).
THEOREM ArraysAreWhole == Spec => []WholeOrNothing
  <1>1. TypeInv /\ PlacedInv /\ ReaderInv => WholeOrNothing
    BY AllEntries DEF ReaderInv, WholeOrNothing
  <1> QED BY TransferInvariant, <1>1, PTL

-----------------------------------------------------------------------------
(* An honest holder.  Each page of its array is in one place: not yet        *)
(* written, on the stream, or taken.                                         *)
FlowInv ==
  /\ unsent \subseteq SplitPages(layout) /\ accepted \subseteq SplitPages(layout)
  /\ unsent \cap accepted = {}
  /\ \A j \in 1..Len(stream) :
       /\ stream[j].kind = "frame" /\ stream[j].page \in SplitPages(layout)
       /\ stream[j].page \notin unsent \cup accepted
       /\ \A l \in 1..Len(stream) : stream[j].page = stream[l].page => j = l
  /\ \A page \in SplitPages(layout) :
       page \in unsent \cup accepted \/ \E j \in 1..Len(stream) : stream[j].page = page
ServedInv ==
  /\ ~refused
  /\ reader \notin {"idle", "failed"} => Len(asm.lens) = Len(layout)
  /\ reader = "failed" => asm = NewAssembler(0) \/ cut = "in_body"
HonestInv == honest => FlowInv /\ ServedInv

AllInv == TypeInv /\ PlacedInv /\ ReaderInv /\ HonestInv

LEMMA SplitPageIs ==
  ASSUME TypeInv, NEW page \in SplitPages(layout)
  PROVE  /\ page \in PageType /\ page.offset % PageSize = 0 /\ Slot(page) \in Slots(Len(layout))
         /\ page = PageOf(layout, Slot(page)) /\ page.offset < Len(layout)
         /\ Length(page) = Smaller(PageSize, Len(layout) - page.offset)
         /\ \A i \in 1..Length(page) : page.entries[i] = layout[page.offset + i]
  <1>0. layout \in Seq(Entries) /\ Len(layout) \in Nat
    BY LenProperties DEF TypeInv, TypeOK
  <1>1. PICK k \in Slots(Len(layout)) : page = PageOf(layout, k)
    BY SplitPagesAre
  <1>2. PageSize * k < Len(layout)
    BY <1>0, SlotStarts
  <1> QED BY <1>0, <1>1, <1>2, PageOfProperties

\* ... so it is accepted in any order, once.
LEMMA SplitPageFits ==
  ASSUME TypeInv, NEW page \in SplitPages(layout), NEW lens \in Seq(Entries),
         Len(lens) = Len(layout)
  PROVE  Fits(lens, page)
  <1>1. /\ page.offset \in Nat /\ page.entries \in Seq(Entries) /\ PageSize \in Nat
        /\ PageSize > 0 /\ Len(layout) \in Nat
    BY SplitPageIs, LenProperties, RangeAssumption DEF PageType, TypeInv, TypeOK
  <1>2. Length(page) = Smaller(PageSize, Len(layout) - page.offset) /\ page.offset < Len(layout)
        /\ page.offset % PageSize = 0
    BY SplitPageIs
  <1>3. Length(page) > 0 /\ Length(page) <= PageSize
        /\ page.offset + Length(page) <= Len(layout)
    BY <1>1, <1>2 DEF Smaller
  <1>4. page.entries # <<>>
    BY <1>1, <1>3 DEF Length
  <1> QED BY <1>2, <1>3, <1>4 DEF Fits

LEMMA SplitPageAlone ==
  ASSUME TypeInv, NEW p \in SplitPages(layout), NEW q \in SplitPages(layout), Slot(p) = Slot(q)
  PROVE  p = q
  BY SplitPageIs

\* A page at its caps is encodable.
FrameRoom == Body(MaxPayload, MaxProof, PageSize) <= MaxBody

LEMMA PageEncodes ==
  ASSUME FrameRoom, TypeInv, NEW page \in SplitPages(layout),
         NEW payload \in {0, MaxPayload}, NEW proof \in {0, MaxProof}
  PROVE  Encodes(payload, proof, Length(page))
  <1>0. {MaxBody, MaxPayload, MaxProof, FixedBytes, EntryBytes, PageSize} \subseteq Nat
    BY RangeAssumption
  <1>1. Length(page) \in Nat /\ Length(page) <= PageSize
    <2>1. page.offset \in Nat /\ page.entries \in Seq(Entries) /\ Len(layout) \in Nat
          /\ Length(page) = Smaller(PageSize, Len(layout) - page.offset)
      BY SplitPageIs, LenProperties DEF PageType, TypeInv, TypeOK
    <2> QED BY <1>0, <2>1 DEF Smaller, Length
  <1>2. /\ (payload + 2) \div 3 <= (MaxPayload + 2) \div 3
        /\ (payload + 2) \div 3 \in Nat /\ (MaxPayload + 2) \div 3 \in Nat
    BY <1>0
  <1>3. /\ Length(page) * EntryBytes <= PageSize * EntryBytes
        /\ Length(page) * EntryBytes \in Nat /\ PageSize * EntryBytes \in Nat
    <2>1. PICK d \in Nat : PageSize = Length(page) + d
      <3>1. PageSize - Length(page) \in Nat
        BY <1>0, <1>1
      <3> QED BY <1>0, <1>1, <3>1
    <2>2. PageSize * EntryBytes = Length(page) * EntryBytes + d * EntryBytes
          /\ d * EntryBytes \in Nat /\ Length(page) * EntryBytes \in Nat
      BY <1>0, <1>1, <2>1
    <2> QED BY <1>0, <2>2
  <1>4. payload <= MaxPayload /\ proof <= MaxProof /\ payload \in Nat /\ proof \in Nat
    BY <1>0
  <1> QED BY <1>0, <1>2, <1>3, <1>4 DEF Encodes, Body, FrameRoom

LEMMA InitHonest == Init => HonestInv
  <1> SUFFICES ASSUME Init PROVE HonestInv
    OBVIOUS
  <1>1. stream = <<>> /\ Len(stream) = 0 /\ accepted = {} /\ unsent = SplitPages(layout)
        /\ ~refused /\ reader = "idle"
    BY EmptyStream DEF Init
  <1>2. 1..0 = {}
    OBVIOUS
  <1> QED BY <1>1, <1>2 DEF HonestInv, FlowInv, ServedInv

\* The holder writes a page ...
LEMMA SendFlows ==
  ASSUME FrameRoom, TypeInv, FlowInv, ServedInv, NEW page \in unsent,
         NEW payload \in {0, MaxPayload}, NEW proof \in {0, MaxProof},
         SendPage(page, payload, proof)
  PROVE  FlowInv' /\ ServedInv'
  <1> DEFINE unit == Unit("frame", page)
             n == Len(stream)
  <1>0. stream \in Seq(UnitType) /\ n \in Nat /\ page \in SplitPages(layout)
    BY LenProperties DEF TypeInv, FlowInv
  <1>1. unit \in UnitType /\ unit.kind = "frame" /\ unit.page = page
    BY DEF Unit, UnitType, Units, TypeInv
  <1>2. /\ unsent' = unsent \ {page} /\ stream' = Append(stream, unit) /\ refused' = refused
        /\ UNCHANGED <<layout, cut, reader, asm, accepted>>
    BY <1>0, PageEncodes DEF SendPage, Writes
  <1> HIDE DEF unit
  <1>3. /\ Len(stream') = n + 1 /\ stream'[n + 1] = unit
        /\ \A j \in 1..n : stream'[j] = stream[j]
    BY <1>0, <1>1, <1>2, AppendProperties
  <1>4. SplitPages(layout)' = SplitPages(layout)
    BY <1>2 DEF SplitPages
  <1>5. \A j \in 1..n : /\ stream[j].kind = "frame" /\ stream[j].page \in SplitPages(layout)
                        /\ stream[j].page \notin unsent \cup accepted
                        /\ \A l \in 1..n : stream[j].page = stream[l].page => j = l
    BY DEF FlowInv
  <1>6. 1..(n + 1) = 1..n \cup {n + 1}
    BY <1>0
  <1>7. ASSUME NEW j \in 1..(n + 1)
        PROVE  /\ stream'[j].kind = "frame" /\ stream'[j].page \in SplitPages(layout)
               /\ stream'[j].page \notin unsent' \cup accepted'
               /\ \A l \in 1..(n + 1) : stream'[j].page = stream'[l].page => j = l
    <2>1. page \notin accepted
      BY DEF FlowInv
    <2>2. CASE j = n + 1
      BY <1>0, <1>1, <1>2, <1>3, <1>5, <1>6, <2>1, <2>2
    <2>3. CASE j \in 1..n
      BY <1>0, <1>1, <1>2, <1>3, <1>5, <1>6, <2>3
    <2> QED BY <1>6, <2>2, <2>3
  <1>8. ASSUME NEW p \in SplitPages(layout)
        PROVE  p \in unsent' \cup accepted' \/ \E j \in 1..(n + 1) : stream'[j].page = p
    <2>1. CASE p = page
      BY <1>0, <1>1, <1>3, <2>1
    <2>2. CASE p # page
      <3>1. p \in unsent' \cup accepted' \/ \E j \in 1..n : stream[j].page = p
        BY <1>2, <2>2 DEF FlowInv
      <3> QED BY <1>3, <1>6, <3>1
    <2> QED BY <2>1, <2>2
  <1>9. FlowInv'
    BY <1>2, <1>3, <1>4, <1>7, <1>8 DEF FlowInv
  <1>10. ServedInv'
    BY <1>2 DEF ServedInv
  <1> QED BY <1>9, <1>10

\* ... and the reader takes it.
LEMMA ReadFlows ==
  ASSUME TypeInv, PlacedInv, FlowInv, ServedInv, ReadPage
  PROVE  FlowInv' /\ ServedInv'
  <1> DEFINE n == Len(stream)
             page == Head(stream).page
  <1>0. stream \in Seq(UnitType) /\ n \in Nat /\ stream # <<>> /\ n > 0
    BY LenProperties, EmptySeq DEF TypeInv, ReadPage
  <1>1. Head(stream) = stream[1] /\ page \in PageType
    BY <1>0, HeadTyped
  <1>2. \A j \in 1..n : /\ stream[j].kind = "frame" /\ stream[j].page \in SplitPages(layout)
                        /\ stream[j].page \notin unsent \cup accepted
                        /\ \A l \in 1..n : stream[j].page = stream[l].page => j = l
    BY DEF FlowInv
  <1>3. 1 \in 1..n /\ page = stream[1].page
    BY <1>0, <1>1
  <1>4. page \in SplitPages(layout) /\ page \notin unsent \cup accepted
    BY <1>2, <1>3
  <1> HIDE DEF page
  <1>5. AsmType(asm) /\ Len(asm.lens) = Len(layout)
    BY DEF TypeInv, TypeOK, AsmType, ServedInv, ReadPage
  <1>6. Accepts(asm, page)
    <2>1. Fits(asm.lens, page)
      BY <1>4, <1>5, SplitPageFits DEF AsmType
    <2>2. SUFFICES ASSUME asm.filled[Slot(page)] PROVE FALSE
      BY <2>1 DEF Accepts
    <2>3. Slot(page) \in Slots(Len(asm.lens))
      BY <1>4, <1>5, SplitPageIs
    <2>4. PICK q \in accepted : Slot(q) = Slot(page)
      BY <2>2, <2>3 DEF PlacedInv, SlotsTaken
    <2> QED BY <1>4, <2>4, SplitPageAlone DEF FlowInv
  <1>7. /\ asm' = Place(asm, page) /\ accepted' = accepted \cup {page}
        /\ stream' = Tail(stream)
        /\ UNCHANGED <<layout, unsent, refused, cut, reader>>
    BY <1>6 DEF ReadPage, holder, page
  <1>8. Len(stream') = n - 1 /\ \A j \in 1..(n - 1) : stream'[j] = stream[j + 1]
    BY <1>0, <1>7, HeadTailProperties
  <1>9. SplitPages(layout)' = SplitPages(layout)
    BY <1>7 DEF SplitPages
  <1>10. ASSUME NEW j \in 1..(n - 1)
         PROVE  /\ stream'[j].kind = "frame" /\ stream'[j].page \in SplitPages(layout)
                /\ stream'[j].page \notin unsent' \cup accepted'
                /\ \A l \in 1..(n - 1) : stream'[j].page = stream'[l].page => j = l
    <2>1. j + 1 \in 1..n /\ j + 1 # 1 /\ \A l \in 1..(n - 1) : l + 1 \in 1..n
      BY <1>0
    <2>2. stream'[j] = stream[j + 1] /\ stream[j + 1].page # page
      BY <1>2, <1>3, <1>8, <2>1
    <2>3. ASSUME NEW l \in 1..(n - 1), stream'[j].page = stream'[l].page PROVE j = l
      <3>1. j + 1 = l + 1
        BY <1>2, <1>8, <2>1, <2>3
      <3> QED BY <1>0, <3>1
    <2> QED BY <1>2, <1>7, <2>1, <2>2, <2>3
  <1>11. ASSUME NEW p \in SplitPages(layout)
         PROVE  p \in unsent' \cup accepted' \/ \E j \in 1..(n - 1) : stream'[j].page = p
    <2>1. CASE p \in unsent \cup accepted \/ p = page
      BY <1>7, <2>1
    <2>2. CASE p \notin unsent \cup accepted /\ p # page
      <3>1. PICK j \in 1..n : stream[j].page = p
        BY <2>2 DEF FlowInv
      <3>2. j # 1 /\ j - 1 \in 1..(n - 1) /\ (j - 1) + 1 = j
        BY <1>0, <1>3, <2>2, <3>1
      <3> QED BY <1>8, <3>1, <3>2
    <2> QED BY <2>1, <2>2
  <1>12. FlowInv'
    BY <1>4, <1>7, <1>8, <1>9, <1>10, <1>11 DEF FlowInv
  <1>13. ServedInv'
    <2>1. Len(asm'.lens) = Len(asm.lens)
      BY <1>1, <1>5, <1>6, <1>7, PlaceTyped DEF Accepts, page
    <2> QED BY <1>5, <1>7, <2>1 DEF ServedInv, ReadPage
  <1> QED BY <1>12, <1>13

\* The other steps move no page.
LEMMA FlowKept ==
  ASSUME FlowInv, UNCHANGED <<layout, unsent, stream, accepted>>
  PROVE  FlowInv'
  <1>1. SplitPages(layout)' = SplitPages(layout)
    BY DEF SplitPages
  <1> QED BY <1>1 DEF FlowInv

LEMMA HonestKeeps ==
  ASSUME FrameRoom, TypeInv, PlacedInv, ReaderInv, HonestInv, [Next]_vars
  PROVE  HonestInv'
  <1>0. honest' = honest
    BY DEF Next, Begin, SendPage, SendAnything, Cut, ReadPage, ReadBad, ReadEnd, vars, holder
  <1> SUFFICES ASSUME honest PROVE FlowInv' /\ ServedInv'
    BY <1>0 DEF HonestInv
  <1> USE DEF HonestInv
  <1>1. ASSUME NEW count \in 0..(MaxCount + 1), Begin(count) PROVE FlowInv' /\ ServedInv'
    <2>1. count \in Nat /\ count = Len(layout) /\ UNCHANGED <<holder, stream, cut, accepted>>
      BY <1>1, RangeAssumption DEF Begin
    <2>2. FlowInv'
      BY <2>1, FlowKept DEF holder
    <2>3. Len(NewAssembler(count).lens) = count
      BY <2>1, NewTyped
    <2>4. asm = NewAssembler(0)
      BY <1>1 DEF Begin, ReaderInv
    <2> QED BY <1>1, <2>1, <2>2, <2>3, <2>4 DEF Begin, ServedInv, holder
  <1>2. ASSUME NEW page \in unsent, NEW payload \in {0, MaxPayload}, NEW proof \in {0, MaxProof},
               SendPage(page, payload, proof)
        PROVE  FlowInv' /\ ServedInv'
    BY <1>2, SendFlows
  <1>3. ASSUME NEW unit, SendAnything(unit) PROVE FALSE
    BY <1>3 DEF SendAnything
  <1>4. ASSUME NEW end, Cut(end) PROVE FlowInv' /\ ServedInv'
    <2>1. FlowInv'
      BY <1>4, FlowKept DEF Cut, holder
    <2> QED BY <1>4, <2>1 DEF Cut, ServedInv, holder
  <1>5. ASSUME ReadPage PROVE FlowInv' /\ ServedInv'
    BY <1>5, ReadFlows
  <1>6. ASSUME ReadBad PROVE FALSE
    <2>1. stream \in Seq(UnitType) /\ stream # <<>> /\ Head(stream) = stream[1]
      BY <1>6, HeadTyped DEF ReadBad, TypeInv
    <2>2. 1 \in 1..Len(stream)
      BY <2>1, EmptySeq
    <2> QED BY <1>6, <2>1, <2>2 DEF ReadBad, FlowInv
  <1>7. ASSUME ReadEnd PROVE FlowInv' /\ ServedInv'
    <2>1. FlowInv'
      BY <1>7, FlowKept DEF ReadEnd, holder
    <2>2. reader' = "failed" => cut' = "in_body"
      BY <1>7 DEF ReadEnd, CleanEnd, TypeInv, TypeOK, Ends
    <2> QED BY <1>7, <2>1, <2>2 DEF ReadEnd, ServedInv, holder
  <1>8. ASSUME UNCHANGED vars PROVE FlowInv' /\ ServedInv'
    <2>1. FlowInv'
      BY <1>8, FlowKept DEF vars, holder
    <2> QED BY <1>8, <2>1 DEF vars, ServedInv, holder
  <1> QED BY <1>1, <1>2, <1>3, <1>4, <1>5, <1>6, <1>7, <1>8 DEF Next

\* All pages are taken exactly when none is on its way.
LEMMA CompleteIsAll ==
  ASSUME TypeInv, PlacedInv, FlowInv, Len(asm.lens) = Len(layout)
  PROVE  IsComplete(asm) <=> (unsent = {} /\ stream = <<>>)
  <1> DEFINE L == Len(asm.lens)
  <1>0. stream \in Seq(UnitType) /\ L \in Nat
    BY LenProperties DEF TypeInv, TypeOK
  <1>1. ASSUME IsComplete(asm), NEW page \in SplitPages(layout) PROVE page \in accepted
    <2>1. Slot(page) \in Slots(L)
      BY SplitPageIs
    <2>2. PICK q \in accepted : Slot(q) = Slot(page)
      BY <1>1, <2>1, AllSlots
    <2> QED BY <2>2, SplitPageAlone DEF FlowInv
  <1>2. ASSUME IsComplete(asm) PROVE unsent = {} /\ stream = <<>>
    <2>1. unsent = {}
      BY <1>1, <1>2 DEF FlowInv
    <2>2. SUFFICES ASSUME stream # <<>> PROVE FALSE
      BY <2>1
    <2>3. 1 \in 1..Len(stream)
      BY <1>0, <2>2, EmptySeq
    <2> QED BY <1>1, <1>2, <2>3 DEF FlowInv
  <1>3. ASSUME unsent = {}, stream = <<>> PROVE IsComplete(asm)
    <2>1. Len(stream) = 0 /\ 1..0 = {}
      BY <1>3
    <2>2. SplitPages(layout) \subseteq accepted
      BY <1>3, <2>1 DEF FlowInv
    <2>3. ASSUME NEW s \in Slots(L) PROVE asm.filled[s]
      <3>1. PageOf(layout, s) \in SplitPages(layout)
        BY <2>3, SplitPagesAre
      <3>2. layout \in Seq(Entries)
        BY DEF TypeInv, TypeOK
      <3>3. Slot(PageOf(layout, s)) = s
        BY <2>3, <3>2, PageOfProperties
      <3> QED BY <2>2, <2>3, <3>1, <3>3 DEF PlacedInv, SlotsTaken
    <2>4. Filled(asm) = Slots(L)
      BY <2>3 DEF Filled
    <2> QED BY <1>0, <2>4, SlotsFinite DEF IsComplete, PlacedInv, SlotsCounted, Filled
  <1> QED BY <1>2, <1>3

\* What was placed is the holder's.
LEMMA PlacedIsLayout ==
  ASSUME TypeInv, PlacedInv, FlowInv, NEW page \in accepted, NEW i \in 1..Length(page)
  PROVE  asm.lens[page.offset + i] = layout[page.offset + i]
  BY SplitPageIs DEF FlowInv, PlacedInv, PagesPlaced

LEMMA WholeIsLayout ==
  ASSUME TypeInv, PlacedInv, FlowInv, IsComplete(asm), Len(asm.lens) = Len(layout)
  PROVE  asm.lens = layout
  <1>0. asm.lens \in Seq(Entries) /\ layout \in Seq(Entries)
    BY DEF TypeInv, TypeOK
  <1>1. ASSUME NEW i \in 1..Len(asm.lens) PROVE asm.lens[i] = layout[i]
    <2>0. i \in Nat /\ Len(asm.lens) \in Nat
      BY <1>0, LenProperties
    <2>1. PICK page \in accepted : Within(i, page)
      BY AllEntries
    <2>2. page.offset \in Nat /\ Length(page) \in Nat
      BY LenProperties DEF TypeInv, PageType, Length
    <2>3. i - page.offset \in 1..Length(page) /\ page.offset + (i - page.offset) = i
      BY <2>0, <2>1, <2>2 DEF Within
    <2>4. asm.lens[page.offset + (i - page.offset)] = layout[page.offset + (i - page.offset)]
      BY <2>3, PlacedIsLayout
    <2> QED BY <2>3, <2>4
  <1> QED BY <1>0, <1>1, SeqEqual

LEMMA Honest == AllInv => HonestArrives
  <1> SUFFICES ASSUME AllInv, honest
      PROVE  /\ ~refused
             /\ reader = "failed" => asm = NewAssembler(0) \/ cut = "in_body"
             /\ reader = "layout" => IsComplete(asm) <=> (unsent = {} /\ stream = <<>>)
             /\ reader = "whole" => asm.lens = layout
             /\ \A i \in Arrived : asm.lens[i] = layout[i]
    BY DEF HonestArrives
  <1>0. TypeInv /\ PlacedInv /\ ReaderInv /\ FlowInv /\ ServedInv
    BY DEF AllInv, HonestInv
  <1>1. reader = "layout" => IsComplete(asm) <=> (unsent = {} /\ stream = <<>>)
    BY <1>0, CompleteIsAll DEF ServedInv
  <1>2. reader = "whole" => asm.lens = layout
    BY <1>0, WholeIsLayout DEF ServedInv, ReaderInv
  <1>3. \A i \in Arrived : asm.lens[i] = layout[i]
    BY <1>0, PlacedIsLayout DEF Arrived
  <1> QED BY <1>0, <1>1, <1>2, <1>3 DEF ServedInv

\* What split_chunk_lens_pages and encode make of any array, the assembler
\* takes in any order, to the last page and no earlier, and yields that array
\* (src/mux.rs:523): for every page size and caps under which one full frame
\* fits MAX_FRAMED_BODY.
THEOREM HonestHoldersArrive ==
  ASSUME FrameRoom
  PROVE  Spec => []HonestArrives
  <1>1. Init => AllInv
    BY InitTyped, InitHonest DEF AllInv
  <1>2. AllInv /\ [Next]_vars => AllInv'
    BY TypeKeeps, PlacedKeeps, HonestKeeps DEF AllInv
  <1>3. AllInv => HonestArrives
    BY Honest
  <1> QED BY <1>1, <1>2, <1>3, PTL DEF Spec
=============================================================================
