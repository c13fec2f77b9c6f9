------------------------------- MODULE Translator -------------------------------
(***************************************************************************)
(* memory_translator and the memory_mapper under it: guest memory is read  *)
(* and written in VMX root mode through one page of reserved address       *)
(* space, whose page-table entry is rewritten for every physical page that *)
(* is looked at, the guest's paging structures included.  The processors   *)
(* that go on running the guest change its page tables meanwhile.  Data is *)
(* not modelled: a byte of the buffer is the physical address it was       *)
(* copied from or to.                                                      *)
(***************************************************************************)
EXTENDS PageWalk, FiniteSets, FiniteSetsExt

CONSTANTS
  Root,        \* the frame of the PML4, cr3.page_frame_number
  Structures,  \* the paging structures at the start: frame -> index -> entry
  Changes,     \* [frame, index, entry]: what the operating system may do to them
  MaxChanges,  \* how many of these during one call (bound)
  Calls        \* [va, size, write, ignore] of the translator; of the mapper when
               \* physical, va is a physical address then

ASSUME TranslatorAssumption ==
  /\ Root \in DOMAIN Structures
  /\ Structures[Root][SelfSlot] = Entry(FALSE, Root)
  /\ MaxChanges \in Nat

VARIABLES
  mem,     \* the paging structures
  past,    \* what they have been during the call
  pte,     \* pte_: the frame the window shows, NoFrame when not present
  tlb,     \* the translation of the window this processor has cached
  call,    \* the call of translator or mapper in progress, or the last one
  mapper   \* the mapper's read_write(): next address, what is left, where it is

vars == <<mem, past, pte, tlb, call, mapper>>

NoFrame == -1
Untouched == -1
Zeroed    == -2

\* The caller of the mapper waits for an entry ("walk") or for data ("copy").
Idle == [pc |-> "idle"]
Request(pa, size) == [pc |-> "map", pa |-> pa, left |-> size, size |-> size]

---------------------------------------------------------------------------
(***************************************************************************)
(* memory_translator::read_write() between two uses of the mapper.         *)
(***************************************************************************)

Va(c) == c.va + c.done
Finish(c, result) == [call |-> [c EXCEPT !.pc = "idle", !.result = result], mapper |-> Idle]

ReadEntry(c, level, frame) ==
  [call   |-> [c EXCEPT !.pc = "walk", !.level = level],
   mapper |-> Request(frame * PageSize + Offset(Va(c), level), 1)]

\* Bytes are done; the next page is walked to.
Advance(c, n) ==
  IF c.done + n = c.size THEN Finish([c EXCEPT !.done = @ + n], 0)
  ELSE ReadEntry([c EXCEPT !.done = @ + n], pml4, Root)

Copied(c, at, n, pa) ==
  [c EXCEPT !.buffer = [i \in DOMAIN @ |-> IF i \in at..(at + n - 1) THEN pa + i - at ELSE @[i]]]

\* memset(), and the bytes of a write that go nowhere.
Skipped(c, n) ==
  [c EXCEPT !.buffer = [i \in DOMAIN @ |-> IF i \in (c.done)..(c.done + n - 1) /\ ~c.write
                                           THEN Zeroed ELSE @[i]]]

\* Mutant: the rest of the buffer is copied at once, as if it were contiguous.
Chunk_Whole(c, pa) == c.size - c.done

\* Mutant: the last page is not cut off at the end of the buffer.
Chunk_Page(c, pa) == PageSize - ByteOffset(pa)

Chunk(c, pa) == Min({PageSize - ByteOffset(pa), c.size - c.done})

\* Mutant: an unmapped page is reported by the address the call began with.
Translated_Start(c, pa) ==
  LET n == Chunk(c, pa) IN
  IF pa # 0 THEN [call |-> [c EXCEPT !.pc = "copy"], mapper |-> Request(pa, n)]
  ELSE IF c.ignore
       THEN Advance(Skipped(c, n), n)
       ELSE Finish(c, c.va)

\* The walk gave pa; a physical address of 0 stands for "not mapped".
Translated(c, pa) ==
  LET n == Chunk(c, pa) IN
  IF pa # 0 THEN [call |-> [c EXCEPT !.pc = "copy"], mapper |-> Request(pa, n)]
  ELSE IF c.ignore
       THEN Advance(Skipped(c, n), n)
       ELSE Finish(c, Va(c))

GotEntry(c) ==
  IF IsLast(c.entry, c.level) THEN Translated(c, Target(c.entry, c.level, Va(c)))
  ELSE ReadEntry(c, c.level - 1, c.entry.frame)

\* What the caller does when the mapper returns.
Return(c, n) ==
  CASE c.pc = "walk" -> GotEntry(c)
    [] c.pc = "copy" -> Advance(c, n)
    [] OTHER         -> Finish([c EXCEPT !.done = @ + n], 0)

---------------------------------------------------------------------------
Init ==
  /\ mem = Structures /\ past = {Structures}
  /\ pte = NoFrame /\ tlb = NoFrame
  /\ call = [pc |-> "idle", va |-> 0, size |-> 0, write |-> FALSE, ignore |-> FALSE,
             physical |-> FALSE, done |-> 0, buffer |-> [i \in {} |-> 0], level |-> pml4, entry |-> Absent, result |-> 0]
  /\ mapper = Idle

Start(next) == call' = next.call /\ mapper' = next.mapper

Begin(request) ==
  LET c == [pc |-> "begin", va |-> request.va, size |-> request.size,
            write |-> request.write, ignore |-> request.ignore,
            physical |-> request.physical, done |-> 0,
            buffer |-> [i \in 0..(request.size - 1) |-> Untouched],
            level |-> pml4, entry |-> Absent, result |-> 0]
  IN /\ call.pc = "idle"
     /\ IF request.physical
        THEN Start([call |-> [c EXCEPT !.pc = "physical"],
                    mapper |-> Request(request.va, request.size)])
        ELSE Start(ReadEntry(c, pml4, Root))
     /\ past' = {mem}
     /\ UNCHANGED <<mem, pte, tlb>>

\* Mutant: the window's old translation is not invalidated.
Invlpg_None == UNCHANGED tlb

\* ia32_asm_inv_page()
Invlpg == tlb' = NoFrame

MapWindow ==
  /\ mapper.pc = "map"
  /\ pte' = Pfn(mapper.pa)
  /\ Invlpg
  /\ mapper' = [mapper EXCEPT !.pc = "memcpy"]
  /\ UNCHANGED <<mem, past, call>>

\* The processor may cache a translation that is present without an access to it.
Speculate ==
  /\ pte # NoFrame /\ tlb = NoFrame
  /\ tlb' = pte
  /\ UNCHANGED <<mem, past, pte, call, mapper>>

\* memcpy() through the window: what is cached is what is accessed.
Copy ==
  /\ mapper.pc = "memcpy"
  /\ LET frame == IF tlb # NoFrame THEN tlb ELSE pte
         from  == frame * PageSize + ByteOffset(mapper.pa)
         n     == Min({PageSize - ByteOffset(mapper.pa), mapper.left})
     IN /\ tlb' = frame
        /\ call' = IF call.pc = "walk"
                   THEN [call EXCEPT !.entry = IF frame \in DOMAIN mem
                                               THEN mem[frame][ByteOffset(from)] ELSE Absent]
                   ELSE Copied(call, call.done + mapper.size - mapper.left, n, from)
        /\ mapper' = [mapper EXCEPT !.pc = "unmap", !.pa = @ + n, !.left = @ - n]
  /\ UNCHANGED <<mem, past, pte>>

\* unmap() leaves the TLB alone.
Unmap ==
  /\ mapper.pc = "unmap"
  /\ pte' = NoFrame
  /\ IF mapper.left = 0 THEN Start(Return(call, mapper.size))
     ELSE mapper' = [mapper EXCEPT !.pc = "map"] /\ UNCHANGED call
  /\ UNCHANGED <<mem, past, tlb>>

\* Another processor changes an entry.
Change(x) ==
  /\ call.pc = "idle" \/ Cardinality(past) <= MaxChanges
  /\ mem[x.frame][x.index] # x.entry
  /\ mem' = [mem EXCEPT ![x.frame][x.index] = x.entry]
  /\ past' = IF call.pc = "idle" THEN past ELSE past \cup {mem'}
  /\ UNCHANGED <<pte, tlb, call, mapper>>

Next ==
  \/ \E request \in Calls : Begin(request)
  \/ MapWindow \/ Speculate \/ Copy \/ Unmap
  \/ \E x \in Changes : Change(x)

Spec == Init /\ [][Next]_vars

---------------------------------------------------------------------------
\* The states between two uses of the mapper, and the window, which is mapped exactly
\* between map() and unmap() (memory_mapper.cpp:31-57).
TypeOK ==
  /\ call.pc \in {"idle", "walk", "copy", "physical"}
  /\ call.done \in 0..call.size /\ DOMAIN call.buffer = 0..(call.size - 1)
  /\ mapper.pc \in {"idle", "map", "memcpy", "unmap"}
  /\ (mapper.pc = "idle") <=> (call.pc = "idle")
  /\ (pte # NoFrame) <=> mapper.pc \in {"memcpy", "unmap"}

\* The address a byte of the buffer belongs to was translated, at some moment of the
\* call, to the physical address the byte was copied from or to: neither the window's
\* stale translations, nor page boundaries, nor page tables that change underneath
\* send a byte elsewhere (memory_mapper.cpp:31-102, memory_translator.cpp:126-181).
CopyExact ==
  \A i \in DOMAIN call.buffer :
    call.buffer[i] \notin {Untouched, Zeroed} =>
      IF call.physical THEN call.buffer[i] = call.va + i
      ELSE \E m \in past : VaToPa(m, Root, call.va + i) = call.buffer[i]

\* At some moment of the call an access to the address would have caused a page fault; or
\* it was mapped to the physical address 0, which the code takes for the same.
Unmapped(va) == \E m \in past : ~Mapped(m, Root, va)
AtZero(va)   == \E m \in past : Mapped(m, Root, va) /\ VaToPa(m, Root, va) = 0

\* Without ignore_errors a call that returns 0 has copied everything, and one that returns
\* an address has copied what lies before it and nothing else.  The comment at
\* memory_translator.cpp:130-134 promises that accessing that address "would trigger page
\* fault".  It would, unless the address is mapped to the physical address 0: that byte is
\* never copied, and its address is returned although it can be accessed.  Nor can a call
\* that begins at address 0 and fails there be told from one that succeeds.
Reported ==
  call.pc = "idle" /\ ~call.ignore =>
    /\ \A i \in DOMAIN call.buffer : call.buffer[i] >= 0 <=> i < call.done
    /\ IF call.done = call.size THEN call.result = 0
       ELSE call.result = Va(call) /\ (Unmapped(call.result) \/ AtZero(call.result))
    /\ ~call.physical => \A i \in DOMAIN call.buffer : call.buffer[i] # 0

\* With ignore_errors a byte is left out only for an address less than a page before it
\* that was not mapped, or mapped to the physical address 0 (memory_translator.cpp:138-166):
\* one such hole never costs more than the part of the next page that lies within a page
\* of where it was met.
SkippedNearHole ==
  call.pc = "idle" =>
    \A i \in DOMAIN call.buffer :
      call.buffer[i] \in {Untouched, Zeroed} /\ call.ignore =>
        \E va \in (call.va + i - PageSize + 1)..(call.va + i) :
          va >= call.va /\ (Unmapped(va) \/ AtZero(va))

\* The walk through the self-mapping slot never faults and finds what the walk through
\* physical memory finds, for every address and however the structures have changed
\* (paging_descriptor.cpp:552-562, memory_translator.cpp:24-68).
SelfMapAgrees ==
  \A va \in 0..(VaSize - 1) : VaToPaSelf(mem, Root, va) = VaToPa(mem, Root, va)
=============================================================================
