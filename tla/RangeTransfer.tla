----------------------------- MODULE RangeTransfer -----------------------------
(***************************************************************************)
(* The range protocol of dig-nat (src/mux.rs): a holder splits the          *)
(* chunk_lens of a resource into pages, frames each with a length prefix    *)
(* and writes it to a stream; the reader decodes frames until the stream    *)
(* ends, places each page in a ChunkLensAssembler and asks it for the whole *)
(* array.  The holder is an untrusted peer: it may write anything, and the  *)
(* stream may be cut anywhere.                                              *)
(***************************************************************************)
EXTENDS Integers, Sequences, FiniteSets

CONSTANTS
  Entries,      \* values of a chunk_lens entry
  Layouts,      \* the chunk_lens of the resources of honest holders
  PageSize,     \* MAX_CHUNK_LENS_PER_FRAME
  MaxCount,     \* MAX_RESOURCE_CHUNK_COUNT
  MaxBody,      \* MAX_FRAMED_BODY
  MaxPayload,   \* MAX_RANGE_FRAME_PAYLOAD
  MaxProof,     \* MAX_INCLUSION_PROOF_B64
  FixedBytes,   \* a frame's JSON without payload, proof and entries, at its widest
  EntryBytes,   \* JSON bytes of one entry and its comma, at its widest
  Window        \* bound: frames in flight

ASSUME RangeAssumption ==
  /\ 0 \in Entries /\ Layouts \subseteq Seq(Entries)
  /\ PageSize \in Nat /\ PageSize > 0
  /\ MaxCount \in Nat
  /\ {MaxBody, MaxPayload, MaxProof, FixedBytes, EntryBytes, Window} \subseteq Nat

VARIABLES
  honest,   \* the holder follows the protocol
  layout,   \* the chunk_lens of its resource
  unsent,   \* pages an honest holder has still to write
  refused,  \* an encode of the holder failed
  stream,   \* what is written and not read
  cut,      \* "no", or where the stream ends: at a frame boundary, inside a
            \* length prefix, inside a body
  reader,   \* where the reader is
  asm,      \* its ChunkLensAssembler
  accepted  \* the pages the assembler took

holder == <<honest, layout, unsent, refused>>
vars == <<holder, stream, cut, reader, asm, accepted>>

Smaller(m, n) == IF m < n THEN m ELSE n

\* chunk_count.div_ceil(MAX_CHUNK_LENS_PER_FRAME)
PageCount(count) == (count + PageSize - 1) \div PageSize
Slots(count) == 0..(PageCount(count) - 1)

Page(offset, entries) == [offset |-> offset, entries |-> entries]
Length(page) == Len(page.entries)
\* Variant: a page states its number for its offset.
SplitPages_Numbered(lens) ==
  {Page(k, SubSeq(lens, k * PageSize + 1, Smaller((k + 1) * PageSize, Len(lens)))) :
     k \in Slots(Len(lens))}

\* split_chunk_lens_pages
SplitPages(lens) ==
  {Page(k * PageSize,
        SubSeq(lens, k * PageSize + 1, Smaller((k + 1) * PageSize, Len(lens)))) :
     k \in Slots(Len(lens))}

-----------------------------------------------------------------------------
(* RangeFrame::encode, on the sizes that decide it: raw payload bytes, proof *)
(* bytes and entries.  base64 writes four bytes for three.                   *)
Body(payload, proof, entries) ==
  FixedBytes + 4 * ((payload + 2) \div 3) + proof + entries * EntryBytes
Encodes(payload, proof, entries) ==
  payload <= MaxPayload /\ proof <= MaxProof /\ Body(payload, proof, entries) <= MaxBody

(* ChunkLensAssembler.                                                       *)
NewAssembler(count) ==
  [lens |-> [i \in 1..count |-> 0], filled |-> [s \in Slots(count) |-> FALSE], pages |-> 0]

Slot(page) == page.offset \div PageSize
Fits(lens, page) ==
  /\ page.entries # <<>>
  /\ Length(page) <= PageSize
  /\ page.offset % PageSize = 0
  /\ page.offset < Len(lens)
  /\ page.offset + Length(page) <= Len(lens)
  /\ Length(page) = Smaller(PageSize, Len(lens) - page.offset)
\* Variant: a page may replace another.
Accepts_Again(a, page) == Fits(a.lens, page)

Accepts(a, page) == Fits(a.lens, page) /\ ~a.filled[Slot(page)]

Within(i, page) == page.offset < i /\ i <= page.offset + Length(page)
Place(a, page) ==
  [lens |-> [i \in 1..Len(a.lens) |->
               IF Within(i, page) THEN page.entries[i - page.offset] ELSE a.lens[i]],
   filled |-> [a.filled EXCEPT ![Slot(page)] = TRUE],
   pages |-> a.pages + 1]
\* Variant: the number of pages is rounded down.
IsComplete_NoTail(a) == a.pages = Len(a.lens) \div PageSize

IsComplete(a) == a.pages = PageCount(Len(a.lens))

-----------------------------------------------------------------------------
\* A frame that carries a page, a length prefix above MAX_FRAMED_BODY, or a
\* body that does not parse.
Page0 == Page(0, <<>>)
Units == {"frame", "oversize", "malformed"}
Unit(kind, page) == [kind |-> kind, page |-> page]

Ends == {"boundary", "in_prefix", "in_body"}
ReaderSteps == {"idle", "layout", "whole", "incomplete", "failed"}

TypeOK ==
  /\ honest \in BOOLEAN /\ layout \in Seq(Entries) /\ refused \in BOOLEAN
  /\ cut \in {"no"} \cup Ends
  /\ reader \in ReaderSteps
  /\ asm.lens \in Seq(Entries) /\ asm.pages \in Nat
  /\ asm.filled \in [Slots(Len(asm.lens)) -> BOOLEAN]
  /\ \A page \in accepted : page.entries \in Seq(Entries)

Init ==
  /\ honest \in BOOLEAN
  /\ layout \in IF honest THEN Layouts ELSE {<<>>}
  /\ unsent = SplitPages(layout)
  /\ refused = FALSE
  /\ stream = <<>> /\ cut = "no"
  /\ reader = "idle"
  /\ asm = NewAssembler(0) /\ accepted = {}

\* ChunkLensAssembler::new, on the chunk_count the first frame declares; the
\* array is allocated only below the cap, and may be refused even so.
Begin(count) ==
  /\ reader = "idle"
  /\ honest => count = Len(layout)
  /\ \/ count <= MaxCount /\ reader' = "layout" /\ asm' = NewAssembler(count)
     \/ reader' = "failed" /\ UNCHANGED asm
  /\ UNCHANGED <<holder, stream, cut, accepted>>

Writes(unit) ==
  /\ cut = "no" /\ ~refused /\ Len(stream) < Window
  /\ stream' = Append(stream, unit)

\* An honest holder writes a page, alone or beside a payload and the proof.
SendPage(page, payload, proof) ==
  /\ honest /\ page \in unsent /\ payload <= MaxPayload /\ proof <= MaxProof
  /\ unsent' = unsent \ {page}
  /\ IF Encodes(payload, proof, Length(page))
     THEN Writes(Unit("frame", page)) /\ UNCHANGED refused
     ELSE refused' = TRUE /\ UNCHANGED stream
  /\ UNCHANGED <<honest, layout, cut, reader, asm, accepted>>

\* Any other holder writes what it likes.
SendAnything(unit) ==
  /\ ~honest
  /\ Writes(unit)
  /\ UNCHANGED <<holder, cut, reader, asm, accepted>>

\* The holder finishes or resets, or the connection is lost: the stream ends,
\* at the earliest after what was written.
Cut(end) ==
  /\ cut = "no"
  /\ cut' = end
  /\ UNCHANGED <<holder, stream, reader, asm, accepted>>

\* decode_framed_opt yields a frame, and the reader places its page.
ReadPage ==
  /\ reader = "layout" /\ stream # <<>> /\ Head(stream).kind = "frame"
  /\ LET page == Head(stream).page IN
     IF Accepts(asm, page)
     THEN asm' = Place(asm, page) /\ accepted' = accepted \cup {page} /\ UNCHANGED reader
     ELSE reader' = "failed" /\ UNCHANGED <<asm, accepted>>
  /\ stream' = Tail(stream)
  /\ UNCHANGED <<holder, cut>>

\* ... or an error: the prefix, or the body, is refused.
ReadBad ==
  /\ reader = "layout" /\ stream # <<>> /\ Head(stream).kind # "frame"
  /\ reader' = "failed" /\ stream' = Tail(stream)
  /\ UNCHANGED <<holder, cut, asm, accepted>>

\* ... or None at the end of the stream, for which an end inside the prefix is
\* taken too; into_chunk_lens then yields the array or says Incomplete.
CleanEnd == cut \in {"boundary", "in_prefix"}
ReadEnd ==
  /\ reader = "layout" /\ stream = <<>> /\ cut # "no"
  /\ reader' = IF ~CleanEnd THEN "failed"
               ELSE IF IsComplete(asm) THEN "whole" ELSE "incomplete"
  /\ UNCHANGED <<holder, stream, cut, asm, accepted>>

-----------------------------------------------------------------------------
Pages(count) ==
  {Page(offset, entries) :
     offset \in 0..(count + PageSize),
     entries \in UNION {[1..n -> Entries] : n \in 0..(PageSize + 1)}}
Anything(count) ==
  {Unit("frame", page) : page \in Pages(count)}
    \cup {Unit("oversize", Page0), Unit("malformed", Page0)}

Next ==
  \/ \E count \in 0..(MaxCount + 1) : Begin(count)
  \/ \E page \in unsent, payload \in {0, MaxPayload}, proof \in {0, MaxProof} :
       SendPage(page, payload, proof)
  \/ \E unit \in Anything(MaxCount) : SendAnything(unit)
  \/ \E end \in Ends : Cut(end)
  \/ ReadPage \/ ReadBad \/ ReadEnd

Spec == Init /\ [][Next]_vars

-----------------------------------------------------------------------------
\* The assembler's records agree: as many slots are filled as it counts, a
\* filled slot has one page that was taken for it, and the entries of every
\* page it took stand where they belong, never overwritten
\* (ChunkLensAssembler, src/mux.rs:936).
SlotsCounted == asm.pages = Cardinality({s \in Slots(Len(asm.lens)) : asm.filled[s]})
SlotsTaken ==
  \A s \in Slots(Len(asm.lens)) : asm.filled[s] <=> \E page \in accepted : Slot(page) = s
TakenOnce == \A p, q \in accepted : Slot(p) = Slot(q) => p = q
PagesPlaced ==
  \A page \in accepted :
    /\ Fits(asm.lens, page)
    /\ \A i \in 1..Length(page) : asm.lens[page.offset + i] = page.entries[i]

AssemblerInv == TypeOK /\ SlotsCounted /\ SlotsTaken /\ TakenOnce /\ PagesPlaced

\* No partial result: an array that is yielded came from the peer to the last
\* entry, whatever the peer wrote and wherever the stream was cut
\* (into_chunk_lens, src/mux.rs:1061).
WholeOrNothing ==
  reader = "whole" =>
    \A i \in 1..Len(asm.lens) :
      \E page \in accepted : Within(i, page) /\ asm.lens[i] = page.entries[i - page.offset]

\* The encoder and the decoder agree: every page split_chunk_lens_pages makes
\* is encodable beside a payload and a proof at their caps, each is accepted in
\* whatever order, the array is whole exactly when all were read, and then it
\* is the holder's (SPEC.md 5.1.1; #1640 was their asymmetry).
Arrived == UNION {{page.offset + i : i \in 1..Length(page)} : page \in accepted}
HonestArrives ==
  honest =>
    /\ ~refused
    /\ reader = "failed" => asm = NewAssembler(0) \/ cut = "in_body"
    /\ reader = "layout" =>
         IsComplete(asm) <=> (unsent = {} /\ stream = <<>>)
    /\ reader = "whole" => asm.lens = layout
    /\ \A i \in Arrived : asm.lens[i] = layout[i]
=============================================================================
