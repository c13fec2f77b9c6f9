--------------------------- MODULE PassthroughProofs ---------------------------
(***************************************************************************)
(* Proofs about Passthrough, for any instructions, translations and        *)
(* register values: the read shadows of CR0 and CR4 are real whenever the  *)
(* guest runs, and, while it keeps away from the gaps, the emulation       *)
(* implements Processor.                                                   *)
(***************************************************************************)
EXTENDS Passthrough, TLAPS

\* All registers.
File == DOMAIN Reset

IsFile(f, S) == f = [r \in S |-> f[r]]

LEMMA FileIs ==
  ASSUME NEW f, NEW S, IsFile(f, S)
  PROVE  DOMAIN f = S
BY DEF IsFile

\* A register file some of whose registers are written.
LEMMA OverFile ==
  ASSUME NEW f, NEW g, NEW S, IsFile(g, S), DOMAIN f \subseteq S
  PROVE  IsFile(f \oplus g, S)
<1>1. DOMAIN g = S
  BY FileIs
<1>2. DOMAIN f \union DOMAIN g = S
  BY <1>1
<1> QED
  BY <1>1, <1>2 DEF IsFile, \oplus

LEMMA OverAt ==
  ASSUME NEW f, NEW g, NEW S, IsFile(g, S), DOMAIN f \subseteq S, NEW r \in S
  PROVE  (f \oplus g)[r] = IF r \in DOMAIN f THEN f[r] ELSE g[r]
<1>1. DOMAIN g = S
  BY FileIs
<1>2. r \in DOMAIN f \union DOMAIN g
  BY <1>1
<1> QED
  BY <1>2 DEF \oplus

TwoOver(file, f, g, h, S) ==
  /\ IsFile(file, S)
  /\ \A r \in S : file[r] = IF r \in DOMAIN f THEN f[r]
                          ELSE IF r \in DOMAIN g THEN g[r] ELSE h[r]

LEMMA OverTwo ==
  ASSUME NEW f, NEW g, NEW h, NEW S, IsFile(h, S), DOMAIN f \subseteq S, DOMAIN g \subseteq S
  PROVE  TwoOver(f \oplus g \oplus h, f, g, h, S)
<1>1. /\ DOMAIN (f \oplus g) = DOMAIN f \union DOMAIN g
      /\ \A r \in DOMAIN f \union DOMAIN g :
           (f \oplus g)[r] = IF r \in DOMAIN f THEN f[r] ELSE g[r]
  BY DEF \oplus
<1>2. DOMAIN (f \oplus g) \subseteq S
  BY <1>1
<1>3. IsFile(f \oplus g \oplus h, S)
  BY <1>2, OverFile
<1>4. ASSUME NEW r \in S
      PROVE  (f \oplus g \oplus h)[r] =
               IF r \in DOMAIN (f \oplus g) THEN (f \oplus g)[r] ELSE h[r]
  BY <1>2, OverAt
<1> QED
  BY <1>1, <1>3, <1>4 DEF TwoOver

\* Two register files are equal when their registers are.
LEMMA SameFile ==
  ASSUME NEW f, NEW g, NEW S, IsFile(f, S), IsFile(g, S),
         \A r \in S : f[r] = g[r]
  PROVE  f = g
BY DEF IsFile

LEMMA NothingIs == DOMAIN Nothing = {} /\ \A r \in DOMAIN Nothing : FALSE
BY DEF Nothing

LEMMA RegistersAre ==
  /\ Switched \subseteq File /\ Context \subseteq File
  /\ Masked \subseteq Switched /\ Masked \cap Context = {}
  /\ {"cr2", "dr6", "lstar", "busy", "xcr0", "port"} \subseteq File
  /\ IsFile(Reset, File)
  /\ DebugControls \subseteq Switched \ (Context \union Masked \union {"cpl"})
  /\ Switched = Loaded \union DebugControls /\ Masked \subseteq Loaded
BY PassthroughAssumption DEF File, IsFile, Switched, Context, Masked, DebugControls, Loaded

---------------------------------------------------------------------------
Permitted(i, g) == g.cpl = 0 \/ i.op \in Bare!Unprivileged

FilesInv ==
  /\ mode \in {"guest", "host", "entry"}
  /\ IsFile(cpu, File) /\ IsFile(vmcs, Switched)
  /\ IsFile(ctx, Context) /\ IsFile(shadow, Masked)
  /\ \A r \in DebugControls : cpu[r] = {}

\* What a value in the guest-state area means for the guest.
InEffect(r, value) ==
  IF r = "dr7" THEN value \cap {"gd"} ELSE IF r = "debugctl" THEN {} ELSE value

GuestInv ==
  /\ \A r \in Masked : shadow[r] = cpu[r]
  /\ cpu.cpl \in {0, 3}
  /\ inject = None

\* Where the registers of the guest, seen, are while the handler runs.
HostInv ==
  /\ IsFile(seen, File)
  /\ \A r \in File \ Switched : cpu[r] = seen[r]
  /\ \A r \in Loaded : vmcs[r] = seen[r]
  /\ \A r \in DebugControls : seen[r] = InEffect(r, vmcs[r])
  /\ \A r \in Context \ {"rax"} : ctx[r] = seen[r]
  /\ ctx.rax = exit.of.src
  /\ \A r \in Masked : shadow[r] = seen[r]
  /\ seen.cpl \in {0, 3}
  /\ inject = None /\ suppress = FALSE

\* What a reason says of the instruction.
ReasonInv ==
  /\ exit.of \in Instructions
  /\ exit.reason = "instruction" => exit.of.op \in Debug \/ Permitted(exit.of, seen)
  /\ exit.reason = "instruction" /\ exit.of.op = "mov_from_cr" => exit.of.reg = "cr3"
  /\ exit.reason = "GP" => ~Permitted(exit.of, seen)
  /\ exit.reason = "BP" => exit.of.op = "int3"
  /\ exit.reason = "PF" => exit.of.op = "access"
  /\ exit.reason = "UD" => exit.of.op \in Undefined

EntryInv ==
  /\ \A r \in Masked : shadow[r] = vmcs[r]
  /\ vmcs.cpl \in {0, 3}

PInv ==
  /\ FilesInv
  /\ mode = "guest" => GuestInv
  /\ mode = "host"  => HostInv /\ ReasonInv
  /\ mode = "entry" => EntryInv

\* The guest keeps away from the gaps.
NoGap(i, reason, g) ==
  /\ i.op \in {"wrmsr", "xsetbv"} => "b40" \notin i.src
  /\ i.reg # "sysenter"
  /\ i.op = "ltr" => Base[i.src] = g.tr_base
  /\ i.reg # "immediate"
  /\ i.reg = "cr4" => "pcide" \notin g.cr4 \ i.src
  /\ i.reg = "cr3" /\ "keep" \in i.src => "pcide" \in g.cr4
  /\ i.op = "sysret" /\ reason = "UD" => g.cpl # 3
  /\ Unloaded(i) = {}

\* Nothing in the two fields that would have an effect in the registers.
Controls == vmcs["dr7"] \subseteq {"gd"} /\ vmcs["debugctl"] = {}

GapInv == Controls /\ (mode = "host" => NoGap(exit.of, exit.reason, seen))

---------------------------------------------------------------------------
\* A handler returns: the registers that VM-entry will load.
Returns(c, v, p) ==
  /\ ctx' = c \oplus ctx /\ vmcs' = v \oplus vmcs /\ cpu' = p \oplus cpu
  /\ DOMAIN c \subseteq Context /\ DOMAIN v \subseteq Switched \ Context
  /\ DOMAIN p \subseteq File \ (Context \union DebugControls)
  /\ mode' = "entry"
  /\ UNCHANGED <<exit, last>>
  /\ IsFile(shadow', Masked)
  /\ \A r \in Masked : shadow'[r] = IF r \in DOMAIN v THEN v[r] ELSE shadow[r]
  /\ "cpl" \in DOMAIN v => v["cpl"] \in {0, 3}

LEMMA Returned ==
  ASSUME PInv, mode = "host", NEW c, NEW v, NEW p, Returns(c, v, p)
  PROVE  PInv'
<1>1. IsFile(cpu', File) /\ IsFile(ctx', Context) /\ IsFile(vmcs', Switched)
  <2>1. IsFile(cpu, File) /\ IsFile(ctx, Context) /\ IsFile(vmcs, Switched)
    BY DEF PInv, FilesInv
  <2>2. DOMAIN v \subseteq Switched
    BY DEF Returns
  <2> QED
    BY <2>1, <2>2, OverFile DEF Returns
<1>2. FilesInv'
  <2>1. IsFile(cpu, File) /\ DOMAIN p \subseteq File /\ DebugControls \subseteq File
    BY RegistersAre DEF PInv, FilesInv, Returns
  <2>2. \A r \in DebugControls : (p \oplus cpu)[r] = cpu[r]
    BY <2>1, OverAt DEF Returns
  <2>3. \A r \in DebugControls : cpu'[r] = {}
    BY <2>2 DEF PInv, FilesInv, Returns
  <2> QED
    BY <1>1, <2>3 DEF FilesInv, Returns
<1>3. \A r \in Switched : vmcs'[r] = IF r \in DOMAIN v THEN v[r] ELSE vmcs[r]
  <2>1. IsFile(vmcs, Switched) /\ DOMAIN v \subseteq Switched
    BY DEF PInv, FilesInv, Returns
  <2>2. \A r \in Switched :
          (v \oplus vmcs)[r] = IF r \in DOMAIN v THEN v[r] ELSE vmcs[r]
    BY <2>1, OverAt
  <2> QED
    BY <2>2 DEF Returns
<1>4. HostInv
  BY DEF PInv
<1>5. \A r \in Masked : shadow'[r] = vmcs'[r]
  BY <1>3, <1>4, RegistersAre DEF HostInv, Returns
<1>6. vmcs'.cpl \in {0, 3}
  <2>1. "cpl" \in Loaded /\ "cpl" \in Switched
    BY DEF Loaded, Switched, DebugControls
  <2> QED
    BY <1>3, <1>4, <2>1 DEF HostInv, Returns
<1> QED
  BY <1>2, <1>5, <1>6 DEF PInv, EntryInv, Returns

\* The value the handler leaves for a register other than rip.
Back(c, v, p, r) ==
  IF r \in DOMAIN c THEN c[r]
  ELSE IF r = "rax" THEN exit.of.src
  ELSE IF r \in DOMAIN v THEN InEffect(r, v[r])
  ELSE IF r \in DOMAIN p \ Switched THEN p[r] ELSE seen[r]

BackRip(c) == IF "rip" \in DOMAIN c THEN c["rip"] ELSE seen.rip

LEMMA RipEntered ==
  ASSUME PInv, mode = "host", NEW c, NEW v, NEW p, Returns(c, v, p)
  PROVE  EntryRip' = IF suppress' THEN BackRip(c) ELSE BackRip(c) + 1
<1>1. IsFile(ctx, Context) /\ DOMAIN c \subseteq Context /\ "rip" \in Context
  BY DEF PInv, FilesInv, Returns, Context
<1>2. (c \oplus ctx)["rip"] = IF "rip" \in DOMAIN c THEN c["rip"] ELSE ctx["rip"]
  BY <1>1, OverAt
<1>3. ctx["rip"] = seen.rip
  BY DEF PInv, HostInv, Context
<1> QED
  BY <1>2, <1>3 DEF EntryRip, BackRip, Returns

LEMMA RegisterEntered ==
  ASSUME PInv, mode = "host", NEW c, NEW v, NEW p, Returns(c, v, p),
         NEW r \in File \ DebugControls
  PROVE  Entered'[r] = IF inject' # None /\ r \in {"rip", "cpl"} THEN 0
                       ELSE IF r = "rip" THEN EntryRip' ELSE Back(c, v, p, r)
<1>1. /\ HostInv
      /\ IsFile(cpu, File) /\ IsFile(ctx, Context) /\ IsFile(vmcs, Switched)
  BY DEF PInv, FilesInv
<1>2. IsFile(cpu', File)
  BY Returned DEF PInv, FilesInv
<1>3. r \in DOMAIN cpu'
  BY <1>2, FileIs
<1>4. Entered'[r] = IF inject' # None /\ r \in {"rip", "cpl"} THEN 0
                    ELSE IF r = "rip" THEN EntryRip'
                    ELSE IF r \in Context THEN ctx'[r]
                    ELSE IF r \in Loaded THEN vmcs'[r] ELSE cpu'[r]
  BY <1>3 DEF Entered
<1>5. DOMAIN c \subseteq Context /\ DOMAIN v \subseteq Switched \ Context
      /\ DOMAIN p \subseteq File \ Context
  BY DEF Returns
<1>6. r \in Context => (c \oplus ctx)[r] = IF r \in DOMAIN c THEN c[r] ELSE ctx[r]
  BY <1>1, <1>5, OverAt
<1>7. r \in Switched => (v \oplus vmcs)[r] = IF r \in DOMAIN v THEN v[r] ELSE vmcs[r]
  <2>1. DOMAIN v \subseteq Switched
    BY <1>5
  <2> QED
    BY <1>1, <2>1, OverAt
<1>8. (p \oplus cpu)[r] = IF r \in DOMAIN p THEN p[r] ELSE cpu[r]
  <2>1. DOMAIN p \subseteq File
    BY <1>5
  <2> QED
    BY <1>1, <2>1, OverAt
<1>9. ctx' = c \oplus ctx /\ vmcs' = v \oplus vmcs /\ cpu' = p \oplus cpu
  BY DEF Returns
<1>10. CASE r \in Context \ {"rip"}
  <2>1. ctx'[r] = Back(c, v, p, r)
    <3>1. ctx'[r] = IF r \in DOMAIN c THEN c[r] ELSE ctx[r]
      BY <1>6, <1>9, <1>10
    <3>2. ctx[r] = IF r = "rax" THEN exit.of.src ELSE seen[r]
      BY <1>1, <1>10 DEF HostInv
    <3>3. r \notin DOMAIN v /\ r \notin DOMAIN p
      BY <1>5, <1>10
    <3> QED
      BY <3>1, <3>2, <3>3 DEF Back
  <2> QED
    BY <1>4, <1>10, <2>1
<1>11. CASE r \in Switched \ Context
  <2>1. r \in Loaded /\ r \notin {"dr7", "debugctl"}
    BY <1>11 DEF Loaded, DebugControls
  <2>2. vmcs'[r] = Back(c, v, p, r)
    <3>1. vmcs'[r] = IF r \in DOMAIN v THEN v[r] ELSE seen[r]
      BY <1>1, <1>7, <1>9, <1>11, <2>1 DEF HostInv
    <3>2. r \notin DOMAIN c /\ r # "rax"
      BY <1>5, <1>11 DEF Context
    <3>3. InEffect(r, v[r]) = v[r]
      BY <2>1 DEF InEffect
    <3> QED
      BY <3>1, <3>2, <3>3, <1>11 DEF Back
  <2> QED
    BY <1>4, <1>11, <2>1, <2>2 DEF Context
<1>12. CASE r \in File \ (Switched \union Context)
  <2>1. cpu'[r] = Back(c, v, p, r)
    <3>1. cpu'[r] = IF r \in DOMAIN p THEN p[r] ELSE seen[r]
      BY <1>1, <1>8, <1>9, <1>12 DEF HostInv
    <3>2. r \notin DOMAIN c /\ r \notin DOMAIN v /\ r # "rax"
      BY <1>5, <1>12 DEF Context
    <3> QED
      BY <3>1, <3>2, <1>12 DEF Back
  <2> QED
    BY <1>4, <1>12, <2>1, RegistersAre DEF Context
<1>13. CASE r = "rip"
  BY <1>4, <1>13
<1> QED
  BY <1>10, <1>11, <1>12, <1>13

\* The debug controls after VM-entry: what their fields hold has no effect but GD.
LEMMA ControlsEntered ==
  ASSUME PInv, mode = "host", NEW c, NEW v, NEW p, Returns(c, v, p), NEW r \in DebugControls
  PROVE  /\ Entered'[r] = {}
         /\ InEffect(r, vmcs'[r]) = Back(c, v, p, r)
<1>1. r \in File /\ r \in Switched /\ r \notin Context /\ r \notin Loaded
      /\ r \notin {"rip", "cpl", "rax"}
  BY RegistersAre DEF Context, Loaded, DebugControls
<1>2. IsFile(cpu', File) /\ cpu'[r] = {}
  BY Returned DEF PInv, FilesInv
<1>3. Entered'[r] = {}
  <2>1. r \in DOMAIN cpu'
    BY <1>1, <1>2, FileIs
  <2> QED
    BY <1>1, <1>2, <2>1 DEF Entered
<1>4. IsFile(vmcs, Switched) /\ DOMAIN v \subseteq Switched /\ DOMAIN c \subseteq Context
      /\ r \notin DOMAIN p \ Switched
  BY <1>1 DEF PInv, FilesInv, Returns
<1>5. (v \oplus vmcs)[r] = IF r \in DOMAIN v THEN v[r] ELSE vmcs[r]
  BY <1>1, <1>4, OverAt
<1>6. vmcs'[r] = IF r \in DOMAIN v THEN v[r] ELSE vmcs[r]
  BY <1>5 DEF Returns
<1>7. seen[r] = InEffect(r, vmcs[r])
  BY DEF PInv, HostInv
<1>8. CASE r \in DOMAIN v
  BY <1>1, <1>3, <1>4, <1>6, <1>8 DEF Back
<1>9. CASE r \notin DOMAIN v
  BY <1>1, <1>3, <1>4, <1>6, <1>7, <1>9 DEF Back
<1> QED
  BY <1>8, <1>9

LEMMA GuestEntered ==
  ASSUME PInv, mode = "host", NEW c, NEW v, NEW p, Returns(c, v, p)
  PROVE  /\ IsFile(GuestRegs', File)
         /\ \A r \in File : GuestRegs'[r] =
              IF inject' # None /\ r \in {"rip", "cpl"} THEN 0
              ELSE IF r = "rip" THEN EntryRip' ELSE Back(c, v, p, r)
<1>1. IsFile(cpu', File)
  BY Returned DEF PInv, FilesInv
<1>2. IsFile(Entered', File)
  BY <1>1, FileIs DEF Entered, IsFile
<1>3. DOMAIN Entered' = File
  BY <1>2, FileIs
<1>4. GuestRegs' = [r \in DOMAIN Entered' |->
                      IF r \in Masked THEN shadow'[r]
                      ELSE IF r = "dr7" THEN (Entered'[r] \ {"gd"}) \union (vmcs'.dr7 \cap {"gd"})
                      ELSE Entered'[r]]
  BY DEF GuestRegs, Guest, Returns
<1>5. ASSUME NEW r \in Masked
      PROVE  GuestRegs'[r] = Back(c, v, p, r) /\ r \in File /\ r \notin {"rip", "cpl"}
  <2>1. r \in File /\ r \notin Context /\ r \notin {"rip", "cpl", "rax", "dr7", "debugctl"}
        /\ r \in Switched
    BY RegistersAre DEF Masked
  <2>2. Back(c, v, p, r) = IF r \in DOMAIN v THEN v[r] ELSE seen[r]
    BY <2>1 DEF Back, Returns, InEffect
  <2>3. shadow[r] = seen[r]
    BY DEF PInv, HostInv
  <2>4. GuestRegs'[r] = shadow'[r]
    BY <1>3, <1>4, <2>1
  <2> QED
    BY <2>1, <2>2, <2>3, <2>4 DEF Returns
<1>6. ASSUME NEW r \in DebugControls
      PROVE  GuestRegs'[r] = Back(c, v, p, r) /\ r \notin {"rip", "cpl"}
  <2>1. r \in File /\ r \notin Masked /\ r \in {"dr7", "debugctl"}
    BY RegistersAre DEF DebugControls
  <2>2. Entered'[r] = {} /\ InEffect(r, vmcs'[r]) = Back(c, v, p, r)
    BY ControlsEntered
  <2>3. CASE r = "dr7"
    BY <1>3, <1>4, <2>1, <2>2, <2>3 DEF InEffect
  <2>4. CASE r = "debugctl"
    BY <1>3, <1>4, <2>1, <2>2, <2>4 DEF InEffect
  <2> QED
    BY <2>1, <2>3, <2>4
<1>7. ASSUME NEW r \in File, r \notin Masked, r \notin DebugControls
      PROVE  GuestRegs'[r] = IF inject' # None /\ r \in {"rip", "cpl"} THEN 0
                             ELSE IF r = "rip" THEN EntryRip' ELSE Back(c, v, p, r)
  <2>1. GuestRegs'[r] = Entered'[r]
    BY <1>3, <1>4, <1>7 DEF DebugControls
  <2>2. r \in File \ DebugControls
    BY <1>7
  <2> QED
    BY <2>1, <2>2, RegisterEntered
<1>8. IsFile(GuestRegs', File)
  BY <1>3, <1>4 DEF IsFile
<1> QED
  BY <1>5, <1>6, <1>7, <1>8

---------------------------------------------------------------------------
LEMMA HostIs ==
  ASSUME PInv, mode = "host"
  PROVE  /\ HostInv /\ ReasonInv /\ GuestRegs = seen /\ GuestLast = last
         /\ \A i : Bare!Allowed(i) <=> Permitted(i, seen)
<1>1. GuestRegs = seen
  BY DEF GuestRegs
<1> QED
  BY <1>1 DEF PInv, GuestLast, Bare!Allowed, Permitted

\* The registers new are what the handler wrote, of those the guest sees.
Written(new, c, v, p) ==
  /\ DOMAIN new \subseteq File
  /\ DOMAIN c \union DOMAIN v \union (DOMAIN p \ Switched) \subseteq DOMAIN new
  /\ \A r \in DOMAIN new : new[r] = Back(c, v, p, r)

\* A handler that emulates the instruction completes it.
LEMMA Completed ==
  ASSUME PInv, mode = "host", NEW c, NEW v, NEW p, Returns(c, v, p),
         UNCHANGED <<inject, suppress>>, DOMAIN c \subseteq {"rax"},
         NEW new, Written(new, c, v, p), DOMAIN new \subseteq File \ {"rip"},
         NEW stale, tlb' \subseteq tlb \ stale
  PROVE  Bare!Retire(exit.of, new, stale)
<1>1. HostInv /\ GuestRegs = seen /\ IsFile(seen, File)
  BY HostIs DEF HostInv
<1>2. inject' = None /\ suppress' = FALSE
  BY <1>1 DEF HostInv
<1>3. EntryRip' = seen.rip + 1
  BY <1>2, RipEntered DEF BackRip
<1> DEFINE now == [rip |-> seen.rip + 1, rax |-> exit.of.src]
           after == new \oplus now \oplus seen
<1>4. DOMAIN now = {"rip", "rax"} /\ now["rip"] = seen.rip + 1 /\ now["rax"] = exit.of.src
  OBVIOUS
<1>5. DOMAIN now \subseteq File /\ DOMAIN new \subseteq File
  BY <1>4, RegistersAre DEF Context
<1> HIDE DEF now
<1>6. /\ IsFile(after, File)
      /\ \A r \in File : after[r] = IF r \in DOMAIN new THEN new[r]
                                    ELSE IF r \in DOMAIN now THEN now[r] ELSE seen[r]
  BY <1>1, <1>5, OverTwo DEF TwoOver
<1> HIDE DEF after
<1>7. \A r \in File : GuestRegs'[r] = after[r]
  <2> TAKE r \in File
  <2>1. GuestRegs'[r] = IF r = "rip" THEN seen.rip + 1 ELSE Back(c, v, p, r)
    BY <1>2, <1>3, GuestEntered
  <2>2. CASE r \in DOMAIN new
    <3>1. r # "rip" /\ new[r] = Back(c, v, p, r)
      BY <2>2 DEF Written
    <3> QED
      BY <1>6, <2>1, <2>2, <3>1
  <2>3. CASE r = "rip"
    BY <1>4, <1>6, <2>1, <2>3
  <2>4. CASE r \notin DOMAIN new /\ r # "rip"
    <3>1. Back(c, v, p, r) = IF r = "rax" THEN exit.of.src ELSE seen[r]
      BY <2>4 DEF Written, Back
    <3>2. after[r] = IF r = "rax" THEN exit.of.src ELSE seen[r]
      BY <1>4, <1>6, <2>4
    <3> QED
      BY <2>1, <2>4, <3>1, <3>2
  <2> QED
    BY <2>2, <2>3, <2>4
<1>8. GuestLast' = [of |-> exit.of, vector |-> None, rip |-> 0]
  BY <1>2 DEF GuestLast, Report, Returns
<1>9. GuestRegs' = new \oplus [rip |-> GuestRegs.rip + 1, rax |-> exit.of.src] \oplus GuestRegs
  <2>1. GuestRegs' = after
    BY <1>6, <1>7, GuestEntered, SameFile
  <2> QED
    BY <1>1, <2>1 DEF after, now
<1> QED
  BY <1>8, <1>9 DEF Bare!Retire, \oplus, Bare!\oplus

\* A handler that gives an event to the guest.
LEMMA Injected ==
  ASSUME PInv, mode = "host", NEW vector \in {"GP", "UD", "DB", "PF", "BP"}, NEW v, NEW p,
         Inject(vector, v, p), DOMAIN v \subseteq {"dr7"}, DOMAIN p \subseteq {"cr2", "dr6"},
         NEW new, Written(new, Nothing, v, p), DOMAIN new \subseteq {"dr7", "cr2", "dr6"}
  PROVE  PInv' /\ Bare!Raise(exit.of, vector, EventRip(vector, seen.rip), new)
<1>1. HostInv /\ GuestRegs = seen /\ IsFile(seen, File)
  BY HostIs DEF HostInv
<1>2. inject' = vector /\ inject' # None /\ suppress' = TRUE /\ tlb' = tlb
  BY PassthroughAssumption DEF Inject
<1>3. Returns(Nothing, v, p)
  <2>1. ctx' = Nothing \oplus ctx
    <3>1. IsFile(ctx, Context) /\ DOMAIN Nothing \subseteq Context
      BY NothingIs DEF PInv, FilesInv
    <3>2. \A r \in Context : (Nothing \oplus ctx)[r] = ctx[r]
      BY <3>1, NothingIs, OverAt
    <3>3. IsFile(Nothing \oplus ctx, Context)
      BY <3>1, OverFile
    <3>4. Nothing \oplus ctx = ctx
      BY <3>1, <3>2, <3>3, SameFile
    <3> QED
      BY <3>4 DEF Inject
  <2>2. DOMAIN v \subseteq Switched \ Context /\ DOMAIN v \cap Masked = {} /\ "cpl" \notin DOMAIN v
    BY DEF Switched, Context, Masked
  <2>3. DOMAIN p \subseteq File \ (Context \union DebugControls)
    BY RegistersAre DEF Context, DebugControls
  <2>4. IsFile(shadow', Masked) /\ shadow' = shadow
    BY DEF PInv, FilesInv, Inject
  <2> QED
    BY <2>1, <2>2, <2>3, <2>4, NothingIs DEF Returns, Inject
<1>4. EntryRip' = seen.rip
  BY <1>2, <1>3, RipEntered, NothingIs DEF BackRip
<1> DEFINE now == [rip |-> 0, cpl |-> 0, rax |-> exit.of.src]
           after == new \oplus now \oplus seen
<1>5. /\ DOMAIN now = {"rip", "cpl", "rax"}
      /\ now["rip"] = 0 /\ now["cpl"] = 0 /\ now["rax"] = exit.of.src
  OBVIOUS
<1>6. DOMAIN now \subseteq File /\ DOMAIN new \subseteq File
  BY <1>5, RegistersAre DEF Context, Switched
<1> HIDE DEF now
<1>7. /\ IsFile(after, File)
      /\ \A r \in File : after[r] = IF r \in DOMAIN new THEN new[r]
                                    ELSE IF r \in DOMAIN now THEN now[r] ELSE seen[r]
  BY <1>1, <1>6, OverTwo DEF TwoOver
<1> HIDE DEF after
<1>8. \A r \in File : GuestRegs'[r] = after[r]
  <2> TAKE r \in File
  <2>1. GuestRegs'[r] = IF r \in {"rip", "cpl"} THEN 0 ELSE Back(Nothing, v, p, r)
    BY <1>2, <1>3, GuestEntered
  <2>2. CASE r \in DOMAIN new
    <3>1. r \notin {"rip", "cpl"} /\ new[r] = Back(Nothing, v, p, r)
      BY <2>2 DEF Written
    <3> QED
      BY <1>7, <2>1, <2>2, <3>1
  <2>3. CASE r \in {"rip", "cpl"} /\ r \notin DOMAIN new
    BY <1>5, <1>7, <2>1, <2>3
  <2>4. CASE r \notin DOMAIN new /\ r \notin {"rip", "cpl"}
    <3>1. Back(Nothing, v, p, r) = IF r = "rax" THEN exit.of.src ELSE seen[r]
      BY <2>4, NothingIs DEF Written, Back
    <3>2. after[r] = IF r = "rax" THEN exit.of.src ELSE seen[r]
      BY <1>5, <1>7, <2>4
    <3> QED
      BY <2>1, <2>4, <3>1, <3>2
  <2> QED
    BY <2>2, <2>3, <2>4
<1>9. GuestLast' = [of |-> exit.of, vector |-> vector, rip |-> EventRip(vector, seen.rip)]
  BY <1>2, <1>3, <1>4 DEF GuestLast, Report, Returns, EventRip
<1>10. GuestRegs' = new \oplus [rip |-> Bare!Vector, cpl |-> 0, rax |-> exit.of.src] \oplus GuestRegs
  <2>1. GuestRegs' = after
    BY <1>3, <1>7, <1>8, GuestEntered, SameFile
  <2> QED
    BY <1>1, <2>1 DEF after, now, Bare!Vector
<1>11. Bare!Raise(exit.of, vector, EventRip(vector, seen.rip), new)
  BY <1>2, <1>9, <1>10 DEF Bare!Raise, \oplus, Bare!\oplus
<1> QED
  BY <1>3, <1>11, Returned

\* What Emulate leaves when it keeps the read shadows true.
LEMMA Emulated ==
  ASSUME PInv, mode = "host", NEW c, NEW v, NEW p, Emulate(c, v, p),
         DOMAIN c \subseteq {"rax"}, DOMAIN v \subseteq Switched \ (Context \union {"cpl"}),
         DOMAIN p \subseteq File \ (Context \union DebugControls),
         IsFile(shadow', Masked),
         \A r \in Masked : shadow'[r] = IF r \in DOMAIN v THEN v[r] ELSE shadow[r]
  PROVE  Returns(c, v, p) /\ UNCHANGED <<inject, suppress>> /\ PInv'
<1>1. Returns(c, v, p) /\ UNCHANGED <<inject, suppress>>
  BY DEF Emulate, Complete, Returns, Context
<1> QED
  BY <1>1, Returned

LEMMA Kept ==
  ASSUME PInv, mode = "host", NEW c, NEW v, NEW p, Emulate(c, v, p), shadow' = shadow,
         DOMAIN c \subseteq {"rax"},
         DOMAIN v \subseteq Switched \ (Context \union Masked \union {"cpl"}),
         DOMAIN p \subseteq File \ (Context \union DebugControls)
  PROVE  Returns(c, v, p) /\ UNCHANGED <<inject, suppress>> /\ PInv'
<1>1. IsFile(shadow', Masked)
  BY DEF PInv, FilesInv
<1>2. DOMAIN v \subseteq Switched \ (Context \union {"cpl"})
  OBVIOUS
<1>3. \A r \in Masked : shadow'[r] = IF r \in DOMAIN v THEN v[r] ELSE shadow[r]
  OBVIOUS
<1> QED
  BY <1>1, <1>2, <1>3, Emulated

\* A write of CR0 or CR4 with its read shadow.
LEMMA WroteMasked ==
  ASSUME PInv, mode = "host", NEW r \in Masked, NEW v, Emulate(Nothing, v, Nothing),
         DOMAIN v = {r}, shadow' = [shadow EXCEPT ![r] = v[r]],
         NEW stale, tlb' \subseteq tlb \ stale
  PROVE  PInv' /\ Bare!Retire(exit.of, v, stale)
<1>1. IsFile(shadow, Masked) /\ DOMAIN shadow = Masked
  BY FileIs DEF PInv, FilesInv
<1>2. IsFile(shadow', Masked)
      /\ \A q \in Masked : shadow'[q] = IF q \in DOMAIN v THEN v[q] ELSE shadow[q]
  BY <1>1 DEF IsFile
<1>3. r \in Switched /\ r \in File /\ r \notin Context /\ r \notin {"cpl", "rip", "rax"}
  BY RegistersAre DEF Masked
<1>4. DOMAIN v \subseteq Switched \ (Context \union {"cpl"})
  BY <1>3
<1>5. Returns(Nothing, v, Nothing) /\ UNCHANGED <<inject, suppress>> /\ PInv'
  BY <1>2, <1>4, Emulated, NothingIs
<1>6. Written(v, Nothing, v, Nothing)
  BY <1>3, NothingIs DEF Written, Back, InEffect, Masked
<1>7. DOMAIN v \subseteq File \ {"rip"}
  BY <1>3
<1> QED
  BY <1>5, <1>6, <1>7, Completed, NothingIs

LEMMA MovToCr0Done ==
  ASSUME PInv, HandleMovToCr0
  PROVE  PInv' /\ Bare!Step(exit.of)
<1>1. mode = "host" /\ exit.of.op = "mov_to_cr" /\ exit.of.reg = "cr0"
      /\ exit.reason = "instruction"
  BY DEF HandleMovToCr0, InHost
<1>2. ctx.rax = exit.of.src
  BY <1>1, HostIs DEF HostInv
<1>3. Bare!Allowed(exit.of)
  BY <1>1, HostIs DEF ReasonInv, Debug
<1>4. PInv' /\ Bare!Retire(exit.of, [cr0 |-> exit.of.src], {})
  <2>1. tlb' \subseteq tlb \ {}
    BY DEF HandleMovToCr0
  <2>2. "cr0" \in Masked
    BY DEF Masked
  <2> QED
    BY <1>1, <1>2, <2>1, <2>2, WroteMasked DEF HandleMovToCr0
<1>5. Bare!MovToCr(exit.of)
  BY <1>1, <1>3, <1>4 DEF Bare!MovToCr
<1> QED
  BY <1>4, <1>5 DEF Bare!Step

LEMMA MovToCr3Done ==
  ASSUME PInv, HandleMovToCr3
  PROVE  PInv' /\ (NoGap(exit.of, exit.reason, seen) => Bare!Step(exit.of))
<1>1. mode = "host" /\ exit.of.op = "mov_to_cr" /\ exit.of.reg = "cr3"
      /\ exit.reason = "instruction"
  BY DEF HandleMovToCr3, InHost
<1>2. HostInv /\ ctx.rax = exit.of.src /\ vmcs.cr4 = seen.cr4 /\ GuestRegs = seen
  BY <1>1, HostIs DEF HostInv, Loaded, DebugControls, Switched
<1>3. Bare!Allowed(exit.of)
  BY <1>1, HostIs DEF ReasonInv, Debug
<1> DEFINE v == [cr3 |-> Cr3Value]
<1>4. DOMAIN v = {"cr3"} /\ v["cr3"] = Cr3Value
  OBVIOUS
<1>5. Emulate(Nothing, v, Nothing) /\ shadow' = shadow /\ tlb' = tlb \cap Bare!Globals
  BY DEF HandleMovToCr3, InvvpidNonGlobal
<1> HIDE DEF v
<1>6. "cr3" \in Switched \ (Context \union Masked \union {"cpl"}) /\ "cr3" \in File
  BY RegistersAre DEF Switched, Context, Masked
<1>7. Returns(Nothing, v, Nothing) /\ UNCHANGED <<inject, suppress>> /\ PInv'
  BY <1>1, <1>4, <1>5, <1>6, Kept, NothingIs
<1>8. Written(v, Nothing, v, Nothing)
  BY <1>4, <1>6, NothingIs DEF Written, Back, InEffect
<1>9. ASSUME NEW stale, tlb' \subseteq tlb \ stale
      PROVE  Bare!Retire(exit.of, v, stale)
  BY <1>1, <1>4, <1>6, <1>7, <1>8, <1>9, Completed, NothingIs
<1>10. ASSUME NoGap(exit.of, exit.reason, seen)
       PROVE  Bare!Step(exit.of)
  <2>1. CASE "keep" \in exit.of.src
    <3>1. "pcide" \in seen.cr4
      BY <1>1, <1>10, <2>1 DEF NoGap
    <3>2. v = [cr3 |-> exit.of.src \ {"keep"}]
      BY <1>2, <3>1 DEF v, Cr3Value
    <3>3. Bare!Retire(exit.of, v, {})
      BY <1>5, <1>9
    <3>4. Bare!MovToCr(exit.of)
      BY <1>1, <1>2, <1>3, <2>1, <3>1, <3>2, <3>3 DEF Bare!MovToCr
    <3> QED
      BY <3>4 DEF Bare!Step
  <2>2. CASE "keep" \notin exit.of.src
    <3>1. exit.of.src \ {"keep"} = exit.of.src
      BY <2>2
    <3>2. v = [cr3 |-> exit.of.src]
      BY <1>2, <3>1 DEF v, Cr3Value
    <3>3. Bare!Retire(exit.of, v, Translations \ Bare!Globals)
      BY <1>5, <1>9
    <3>4. Bare!MovToCr(exit.of)
      BY <1>1, <1>3, <2>2, <3>2, <3>3 DEF Bare!MovToCr
    <3> QED
      BY <3>4 DEF Bare!Step
  <2> QED
    BY <2>1, <2>2
<1> QED
  BY <1>7, <1>10

LEMMA MovToCr4Done ==
  ASSUME PInv, HandleMovToCr4
  PROVE  PInv' /\ (NoGap(exit.of, exit.reason, seen) => Bare!Step(exit.of))
<1>1. mode = "host" /\ exit.of.op = "mov_to_cr" /\ exit.of.reg = "cr4"
      /\ exit.reason = "instruction"
  BY DEF HandleMovToCr4, InHost
<1>2. HostInv /\ ctx.rax = exit.of.src /\ vmcs.cr4 = seen.cr4 /\ GuestRegs = seen
  BY <1>1, HostIs DEF HostInv, Loaded, DebugControls, Switched
<1>3. Bare!Allowed(exit.of)
  BY <1>1, HostIs DEF ReasonInv, Debug
<1>4. ASSUME NEW stale, tlb' \subseteq tlb \ stale
      PROVE  PInv' /\ Bare!Retire(exit.of, [cr4 |-> exit.of.src], stale)
  <2>1. "cr4" \in Masked
    BY DEF Masked
  <2> QED
    BY <1>1, <1>2, <1>4, <2>1, WroteMasked DEF HandleMovToCr4
<1>5. tlb' \subseteq tlb
  BY DEF HandleMovToCr4, InvvpidAll
<1>6. PInv'
  <2>1. tlb' \subseteq tlb \ {}
    BY <1>5
  <2> QED
    BY <1>4, <2>1
<1>7. ASSUME NoGap(exit.of, exit.reason, seen)
      PROVE  Bare!Step(exit.of)
  <2> DEFINE lost == GuestRegs.cr4 \ exit.of.src
             changed == lost \union (exit.of.src \ GuestRegs.cr4)
             stale == IF "pge" \in changed \/ "pcide" \in lost THEN Translations ELSE {}
  <2>1. "pcide" \notin lost
    BY <1>1, <1>2, <1>7 DEF NoGap
  <2>2. "pge" \in changed <=> (("pge" \in exit.of.src) # ("pge" \in seen.cr4))
    BY <1>2
  <2> HIDE DEF lost, changed
  <2>3. tlb' \subseteq tlb \ stale
    <3>1. CASE "pge" \in changed
      <4>1. ("pge" \in ctx.rax) # ("pge" \in vmcs.cr4)
        BY <1>2, <2>2, <3>1
      <4> QED
        BY <4>1 DEF HandleMovToCr4, InvvpidAll
    <3>2. CASE "pge" \notin changed
      BY <1>5, <2>1, <3>2
    <3> QED
      BY <3>1, <3>2
  <2>4. Bare!Retire(exit.of, [cr4 |-> exit.of.src], stale)
    BY <1>4, <2>3
  <2>5. Bare!MovToCr(exit.of)
    BY <1>1, <1>3, <2>4 DEF Bare!MovToCr, stale, lost, changed
  <2> QED
    BY <2>5 DEF Bare!Step
<1> QED
  BY <1>6, <1>7

LEMMA ClearTsDone ==
  ASSUME PInv, HandleClts
  PROVE  PInv' /\ Bare!Step(exit.of)
<1>1. mode = "host" /\ exit.of.op = "clts" /\ exit.reason = "instruction"
  BY DEF HandleClts, InHost
<1>2. vmcs.cr0 = seen.cr0 /\ GuestRegs = seen
  BY <1>1, HostIs DEF HostInv, Loaded, DebugControls, Switched
<1>3. Bare!Allowed(exit.of)
  BY <1>1, HostIs DEF ReasonInv, Debug
<1>4. PInv' /\ Bare!Retire(exit.of, [cr0 |-> seen.cr0 \ {"ts"}], {})
  <2>1. tlb' \subseteq tlb \ {} /\ "cr0" \in Masked
    BY DEF HandleClts, WriteCr0, Masked
  <2> QED
    BY <1>1, <1>2, <2>1, WroteMasked DEF HandleClts, WriteCr0
<1>5. Bare!Clts(exit.of)
  BY <1>1, <1>2, <1>3, <1>4 DEF Bare!Clts
<1> QED
  BY <1>4, <1>5 DEF Bare!Step

LEMMA LoadMswDone ==
  ASSUME PInv, HandleLmsw
  PROVE  PInv' /\ Bare!Step(exit.of)
<1>1. mode = "host" /\ exit.of.op = "lmsw" /\ exit.reason = "instruction"
  BY DEF HandleLmsw, InHost
<1>2. HostInv /\ ctx.rax = exit.of.src /\ vmcs.cr0 = seen.cr0 /\ GuestRegs = seen
  BY <1>1, HostIs DEF HostInv, Loaded, DebugControls, Switched
<1>3. Bare!Allowed(exit.of)
  BY <1>1, HostIs DEF ReasonInv, Debug
<1> DEFINE value == (seen.cr0 \ (Bare!Msw \ Bare!Sticky)) \union (exit.of.src \cap Bare!Msw)
<1>4. value = (vmcs.cr0 \ {"mp", "ts"}) \union (ctx.rax \cap {"pe", "mp", "ts"})
  <2>1. Bare!Msw \ Bare!Sticky = {"mp", "ts"}
    BY DEF Bare!Msw, Bare!Sticky
  <2> QED
    BY <1>2, <2>1 DEF Bare!Msw
<1> HIDE DEF value
<1>5. PInv' /\ Bare!Retire(exit.of, [cr0 |-> value], {})
  <2>1. tlb' \subseteq tlb \ {} /\ "cr0" \in Masked
    BY DEF HandleLmsw, WriteCr0, Masked
  <2>2. Emulate(Nothing, [cr0 |-> value], Nothing) /\ shadow' = [shadow EXCEPT !.cr0 = value]
    BY <1>4 DEF HandleLmsw, WriteCr0
  <2> QED
    BY <1>1, <2>1, <2>2, WroteMasked
<1>6. Bare!Lmsw(exit.of)
  BY <1>1, <1>2, <1>3, <1>5 DEF Bare!Lmsw, value
<1> QED
  BY <1>5, <1>6 DEF Bare!Step

---------------------------------------------------------------------------
(***************************************************************************)
(* Handlers that write one register, or none.                              *)
(***************************************************************************)
LEMMA RaxWritten ==
  ASSUME PInv, mode = "host", NEW value, Emulate([rax |-> value], Nothing, Nothing), Keep
  PROVE  PInv' /\ Bare!Retire(exit.of, [rax |-> value], {})
<1> DEFINE c == [rax |-> value]
<1>1. DOMAIN c = {"rax"} /\ c["rax"] = value
  OBVIOUS
<1>2. Emulate(c, Nothing, Nothing) /\ shadow' = shadow /\ tlb' \subseteq tlb \ {}
  BY DEF Keep
<1> HIDE DEF c
<1>3. "rax" \in File
  BY RegistersAre DEF Context
<1>4. Returns(c, Nothing, Nothing) /\ UNCHANGED <<inject, suppress>> /\ PInv'
  BY <1>1, <1>2, Kept, NothingIs
<1>5. Written(c, c, Nothing, Nothing)
  BY <1>1, <1>3, NothingIs DEF Written, Back
<1>6. DOMAIN c \subseteq {"rax"} /\ DOMAIN c \subseteq File \ {"rip"}
  BY <1>1, <1>3
<1>7. Bare!Retire(exit.of, c, {})
  BY <1>2, <1>4, <1>5, <1>6, Completed
<1> QED
  BY <1>4, <1>7 DEF c

LEMMA SwitchedWritten ==
  ASSUME PInv, mode = "host", NEW r \in Switched \ (Context \union Masked \union {"cpl"}),
         NEW v, DOMAIN v = {r}, Emulate(Nothing, v, Nothing), Keep
  PROVE  PInv' /\ (InEffect(r, v[r]) = v[r] => Bare!Retire(exit.of, v, {}))
<1>1. shadow' = shadow /\ tlb' \subseteq tlb \ {}
  BY DEF Keep
<1>2. r \in File /\ r \notin {"rip", "rax"}
  BY RegistersAre DEF Context
<1>3. Returns(Nothing, v, Nothing) /\ UNCHANGED <<inject, suppress>> /\ PInv'
  BY <1>1, Kept, NothingIs
<1>4. InEffect(r, v[r]) = v[r] => Written(v, Nothing, v, Nothing)
  BY <1>2, NothingIs DEF Written, Back
<1>5. DOMAIN v \subseteq File \ {"rip"}
  BY <1>2
<1> QED
  BY <1>1, <1>3, <1>4, <1>5, Completed, NothingIs

LEMMA SharedWritten ==
  ASSUME PInv, mode = "host", NEW r \in File \ (Switched \union Context),
         NEW p, DOMAIN p = {r}, Emulate(Nothing, Nothing, p), Keep
  PROVE  PInv' /\ Bare!Retire(exit.of, p, {})
<1>1. shadow' = shadow /\ tlb' \subseteq tlb \ {}
  BY DEF Keep
<1>2. r \notin {"rip", "rax"} /\ r \notin DebugControls
  BY RegistersAre DEF Context
<1>3. Returns(Nothing, Nothing, p) /\ UNCHANGED <<inject, suppress>> /\ PInv'
  BY <1>1, <1>2, Kept, NothingIs
<1>4. Written(p, Nothing, Nothing, p)
  BY <1>2, NothingIs DEF Written, Back
<1>5. DOMAIN p \subseteq File \ {"rip"}
  BY <1>2
<1> QED
  BY <1>1, <1>3, <1>4, <1>5, Completed, NothingIs

LEMMA NothingWritten ==
  ASSUME PInv, mode = "host", Emulate(Nothing, Nothing, Nothing), shadow' = shadow
  PROVE  /\ PInv'
         /\ \A stale : tlb' \subseteq tlb \ stale => Bare!Retire(exit.of, Nothing, stale)
<1>1. Returns(Nothing, Nothing, Nothing) /\ UNCHANGED <<inject, suppress>> /\ PInv'
  BY Kept, NothingIs
<1>2. Written(Nothing, Nothing, Nothing, Nothing)
  BY NothingIs DEF Written, Back
<1>3. DOMAIN Nothing \subseteq File \ {"rip"} /\ DOMAIN Nothing \subseteq {"rax"}
  BY NothingIs
<1> QED
  BY <1>1, <1>2, <1>3, Completed

---------------------------------------------------------------------------
LEMMA MovFromCr3Done ==
  ASSUME PInv, HandleMovFromCr3
  PROVE  PInv' /\ Bare!Step(exit.of)
<1>1. mode = "host" /\ exit.of.op = "mov_from_cr" /\ exit.reason = "instruction"
  BY DEF HandleMovFromCr3, InHost
<1>2. exit.of.reg = "cr3" /\ Bare!Allowed(exit.of)
  BY <1>1, HostIs DEF ReasonInv, Debug
<1>3. vmcs.cr3 = seen.cr3 /\ GuestRegs = seen
  BY <1>1, HostIs DEF HostInv, Loaded, DebugControls, Switched
<1>4. PInv' /\ Bare!Retire(exit.of, [rax |-> vmcs.cr3], {})
  BY <1>1, RaxWritten DEF HandleMovFromCr3
<1>5. Bare!MovFromCr(exit.of)
  BY <1>1, <1>2, <1>3, <1>4 DEF Bare!MovFromCr
<1> QED
  BY <1>4, <1>5 DEF Bare!Step

\* The MSRs of the model, apart from the two that the code knows VM-entry loads.
LEMMA MsrIs ==
  ASSUME NEW i \in Instructions, i.op \in {"rdmsr", "wrmsr"}
  PROVE  \/ i.reg \in InVmcs
         \/ i.reg = "sysenter"
         \/ i.reg \in File \ (Switched \union Context)
BY PassthroughAssumption DEF Targeted, Targets, InVmcs, File, Debug

LEMMA RdmsrDone ==
  ASSUME PInv, HandleRdmsr
  PROVE  PInv' /\ (GapInv => Bare!Step(exit.of))
<1>1. mode = "host" /\ exit.of.op = "rdmsr" /\ exit.reason = "instruction"
  BY DEF HandleRdmsr, InHost
<1>2. HostInv /\ GuestRegs = seen /\ exit.of \in Instructions /\ Bare!Allowed(exit.of)
  BY <1>1, HostIs DEF ReasonInv, Debug
<1> DEFINE value == IF exit.of.reg \in InVmcs THEN vmcs[exit.of.reg] ELSE cpu[exit.of.reg]
<1>3. PInv' /\ Bare!Retire(exit.of, [rax |-> value], {})
  BY <1>1, RaxWritten DEF HandleRdmsr
<1>4. ASSUME GapInv
      PROVE  Bare!Step(exit.of)
  <2>1. value = seen[exit.of.reg]
    <3>1. exit.of.reg \in InVmcs \/ exit.of.reg \in File \ (Switched \union Context)
      BY <1>1, <1>2, <1>4, MsrIs DEF GapInv, NoGap
    <3>2. CASE exit.of.reg = "fs_base"
      BY <1>2, <3>2 DEF HostInv, InVmcs, Switched, Loaded, DebugControls
    <3>3. CASE exit.of.reg = "debugctl"
      <4>1. vmcs["debugctl"] = {} /\ seen["debugctl"] = {}
        BY <1>2, <1>4 DEF GapInv, Controls, HostInv, InEffect, DebugControls
      <4> QED
        BY <3>3, <4>1 DEF InVmcs
    <3>4. CASE exit.of.reg \in File \ (Switched \union Context)
      BY <1>2, <3>4 DEF HostInv, InVmcs, Switched
    <3> QED
      BY <3>1, <3>2, <3>3, <3>4 DEF InVmcs
  <2>2. Bare!Rdmsr(exit.of)
    BY <1>1, <1>2, <1>3, <2>1 DEF Bare!Rdmsr
  <2> QED
    BY <2>2 DEF Bare!Step
<1> QED
  BY <1>3, <1>4

LEMMA WrmsrDone ==
  ASSUME PInv, HandleWrmsr
  PROVE  PInv' /\ (GapInv => Bare!Step(exit.of))
<1>1. mode = "host" /\ exit.of.op = "wrmsr" /\ exit.reason = "instruction"
  BY DEF HandleWrmsr, InHost
<1>2. /\ HostInv /\ GuestRegs = seen /\ exit.of \in Instructions /\ Bare!Allowed(exit.of)
      /\ ctx.rax = exit.of.src
  BY <1>1, HostIs DEF ReasonInv, HostInv, Debug
<1> DEFINE new == [r \in {exit.of.reg} |-> exit.of.src]
<1>3. DOMAIN new = {exit.of.reg}
  OBVIOUS
<1>4. /\ exit.of.reg \in InVmcs => Emulate(Nothing, new, Nothing)
      /\ exit.of.reg \notin InVmcs => Emulate(Nothing, Nothing, new)
      /\ Keep
  BY <1>2 DEF HandleWrmsr
<1>5. ASSUME exit.of.reg \in InVmcs
      PROVE  PInv' /\ (GapInv => Bare!Retire(exit.of, new, {}))
  <2>1. exit.of.reg \in Switched \ (Context \union Masked \union {"cpl"})
    BY <1>5 DEF InVmcs, Switched, Context, Masked
  <2>2. new[exit.of.reg] = exit.of.src
    OBVIOUS
  <2> HIDE DEF new
  <2>3. PInv' /\ (InEffect(exit.of.reg, new[exit.of.reg]) = new[exit.of.reg]
                     => Bare!Retire(exit.of, new, {}))
    BY <1>1, <1>3, <1>4, <1>5, <2>1, SwitchedWritten
  <2>4. ASSUME GapInv
        PROVE  InEffect(exit.of.reg, exit.of.src) = exit.of.src
    <3>1. CASE exit.of.reg = "fs_base"
      BY <3>1 DEF InEffect
    <3>2. CASE exit.of.reg = "debugctl"
      <4>1. Unloaded(exit.of) = {}
        BY <1>1, <2>4 DEF GapInv, NoGap
      <4>2. exit.of.src = {}
        BY <1>1, <3>2, <4>1 DEF Unloaded
      <4> QED
        BY <3>2, <4>2 DEF InEffect
    <3> QED
      BY <1>5, <3>1, <3>2 DEF InVmcs
  <2> QED
    BY <2>2, <2>3, <2>4
<1>6. ASSUME exit.of.reg \in File \ (Switched \union Context)
      PROVE  PInv' /\ Bare!Retire(exit.of, new, {})
  <2>1. exit.of.reg \notin InVmcs
    BY <1>6 DEF InVmcs, Switched
  <2> HIDE DEF new
  <2> QED
    BY <1>1, <1>3, <1>4, <1>6, <2>1, SharedWritten
<1>7. CASE exit.of.reg = "sysenter"
  <2>1. exit.of.reg \notin InVmcs /\ exit.of.reg \in File \ (Context \union DebugControls)
    BY <1>7, RegistersAre DEF InVmcs, Switched, Context, DebugControls
  <2>2. Emulate(Nothing, Nothing, new) /\ shadow' = shadow
    BY <1>4, <2>1 DEF Keep
  <2> HIDE DEF new
  <2>3. PInv'
    BY <1>1, <1>3, <2>1, <2>2, Kept, NothingIs
  <2>4. ~GapInv
    BY <1>1, <1>7 DEF GapInv, NoGap
  <2> QED
    BY <2>3, <2>4
<1>8. ASSUME GapInv, Bare!Retire(exit.of, new, {})
      PROVE  Bare!Step(exit.of)
  <2>1. exit.of.src \ Bare!Upper = exit.of.src
    BY <1>1, <1>8 DEF GapInv, NoGap, Bare!Upper
  <2>2. Bare!Wrmsr(exit.of)
    BY <1>1, <1>2, <1>8, <2>1 DEF Bare!Wrmsr
  <2> QED
    BY <2>2 DEF Bare!Step
<1>9. exit.of.reg \in InVmcs \/ exit.of.reg = "sysenter"
      \/ exit.of.reg \in File \ (Switched \union Context)
  BY <1>1, <1>2, MsrIs
<1> QED
  BY <1>5, <1>6, <1>7, <1>8, <1>9

LEMMA XsetbvDone ==
  ASSUME PInv, HandleXsetbv
  PROVE  PInv' /\ (NoGap(exit.of, exit.reason, seen) => Bare!Step(exit.of))
<1>1. mode = "host" /\ exit.of.op = "xsetbv" /\ exit.reason = "instruction"
  BY DEF HandleXsetbv, InHost
<1>2. ctx.rax = exit.of.src /\ Bare!Allowed(exit.of)
  BY <1>1, HostIs DEF ReasonInv, HostInv, Debug
<1>3. PInv' /\ Bare!Retire(exit.of, [xcr0 |-> exit.of.src], {})
  <2>1. "xcr0" \in File \ (Switched \union Context)
    BY RegistersAre DEF Switched, Context
  <2> QED
    BY <1>1, <1>2, <2>1, SharedWritten DEF HandleXsetbv
<1>4. ASSUME NoGap(exit.of, exit.reason, seen)
      PROVE  Bare!Step(exit.of)
  <2>1. exit.of.src \ Bare!Upper = exit.of.src
    BY <1>1, <1>4 DEF NoGap, Bare!Upper
  <2>2. Bare!Xsetbv(exit.of)
    BY <1>1, <1>2, <1>3, <2>1 DEF Bare!Xsetbv
  <2> QED
    BY <2>2 DEF Bare!Step
<1> QED
  BY <1>3, <1>4

LEMMA CpuidDone ==
  ASSUME PInv, HandleCpuid
  PROVE  PInv' /\ Bare!Step(exit.of)
<1>1. mode = "host" /\ exit.of.op = "cpuid"
  BY DEF HandleCpuid, InHost
<1>2. PInv' /\ Bare!Retire(exit.of, [rax |-> Bare!CpuInfo], {})
  BY <1>1, RaxWritten DEF HandleCpuid
<1>3. Bare!Cpuid(exit.of)
  BY <1>1, <1>2 DEF Bare!Cpuid
<1> QED
  BY <1>2, <1>3 DEF Bare!Step

LEMMA InvdDone ==
  ASSUME PInv, HandleInvd
  PROVE  PInv' /\ Bare!Step(exit.of)
<1>1. mode = "host" /\ exit.of.op = "invd" /\ exit.reason = "instruction"
  BY DEF HandleInvd, InHost
<1>2. Bare!Allowed(exit.of)
  BY <1>1, HostIs DEF ReasonInv, Debug
<1>3. PInv' /\ Bare!Retire(exit.of, Nothing, {})
  <2>1. Emulate(Nothing, Nothing, Nothing) /\ shadow' = shadow /\ tlb' \subseteq tlb \ {}
    BY DEF HandleInvd, Keep
  <2> QED
    BY <1>1, <2>1, NothingWritten
<1>4. Bare!Wbinvd(exit.of)
  BY <1>1, <1>2, <1>3 DEF Bare!Wbinvd, Nothing, Bare!Nothing
<1> QED
  BY <1>3, <1>4 DEF Bare!Step

LEMMA GdtrIdtrDone ==
  ASSUME PInv, HandleGdtrIdtrAccess
  PROVE  PInv' /\ Bare!Step(exit.of)
<1>1. mode = "host" /\ exit.reason = "instruction"
  BY DEF HandleGdtrIdtrAccess, InHost
<1>2. /\ ctx.rax = exit.of.src /\ GuestRegs = seen /\ vmcs.gdtr = seen.gdtr
      /\ exit.of.op = "lgdt" => Bare!Allowed(exit.of)
  BY <1>1, HostIs DEF ReasonInv, HostInv, Debug, Loaded, DebugControls, Switched
<1>3. Keep
  BY DEF HandleGdtrIdtrAccess
<1>4. CASE InHost("sgdt") /\ Emulate([rax |-> vmcs.gdtr], Nothing, Nothing)
  <2>1. PInv' /\ Bare!Retire(exit.of, [rax |-> vmcs.gdtr], {})
    BY <1>1, <1>3, <1>4, RaxWritten
  <2>2. Bare!Sgdt(exit.of)
    BY <1>2, <1>4, <2>1 DEF Bare!Sgdt, InHost
  <2> QED
    BY <2>1, <2>2 DEF Bare!Step
<1>5. CASE InHost("lgdt") /\ Emulate(Nothing, [gdtr |-> ctx.rax], Nothing)
  <2>1. "gdtr" \in Switched \ (Context \union Masked \union {"cpl"})
    BY DEF Switched, Context, Masked
  <2>2. PInv' /\ Bare!Retire(exit.of, [gdtr |-> ctx.rax], {})
    <3> DEFINE v == [gdtr |-> ctx.rax]
    <3>1. DOMAIN v = {"gdtr"}
      OBVIOUS
    <3>2. Emulate(Nothing, v, Nothing)
      BY <1>5
    <3>3. InEffect("gdtr", v["gdtr"]) = v["gdtr"]
      BY DEF InEffect
    <3> HIDE DEF v
    <3>4. PInv' /\ Bare!Retire(exit.of, v, {})
      BY <1>1, <1>3, <2>1, <3>1, <3>2, <3>3, SwitchedWritten
    <3> QED
      BY <3>4 DEF v
  <2>3. Bare!Lgdt(exit.of)
    BY <1>2, <1>5, <2>2 DEF Bare!Lgdt, InHost
  <2> QED
    BY <2>2, <2>3 DEF Bare!Step
<1> QED
  BY <1>4, <1>5 DEF HandleGdtrIdtrAccess

LEMMA LdtrTrDone ==
  ASSUME PInv, HandleLdtrTrAccess
  PROVE  PInv' /\ (NoGap(exit.of, exit.reason, seen) => Bare!Step(exit.of))
<1>1. mode = "host" /\ exit.reason = "instruction"
  BY DEF HandleLdtrTrAccess, InHost
<1>2. /\ HostInv /\ ctx.rax = exit.of.src /\ GuestRegs = seen /\ vmcs.tr = seen.tr
      /\ exit.of.op = "ltr" => Bare!Allowed(exit.of)
  BY <1>1, HostIs DEF ReasonInv, HostInv, Debug, Loaded, DebugControls, Switched
<1>3. Keep
  BY DEF HandleLdtrTrAccess
<1>4. CASE InHost("str") /\ Emulate([rax |-> vmcs.tr], Nothing, Nothing)
  <2>1. PInv' /\ Bare!Retire(exit.of, [rax |-> vmcs.tr], {})
    BY <1>1, <1>3, <1>4, RaxWritten
  <2>2. Bare!Str(exit.of)
    BY <1>2, <1>4, <2>1 DEF Bare!Str, InHost
  <2> QED
    BY <2>1, <2>2 DEF Bare!Step
<1>5. CASE /\ InHost("ltr")
           /\ Emulate(Nothing, [tr |-> ctx.rax], [busy |-> cpu.busy \union {ctx.rax}])
  <2> DEFINE v == [tr |-> exit.of.src]
             p == [busy |-> seen.busy \union {exit.of.src}]
             new == [tr |-> exit.of.src, tr_base |-> Base[exit.of.src],
                     busy |-> seen.busy \union {exit.of.src}]
  <2>1. "busy" \in File \ (Switched \union Context)
    BY RegistersAre DEF Switched, Context
  <2>2. Emulate(Nothing, v, p)
    BY <1>2, <1>5, <2>1 DEF HostInv
  <2>3. /\ DOMAIN v = {"tr"} /\ v["tr"] = exit.of.src
        /\ DOMAIN p = {"busy"} /\ p["busy"] = seen.busy \union {exit.of.src}
        /\ DOMAIN new = {"tr", "tr_base", "busy"} /\ new["tr"] = exit.of.src
        /\ new["tr_base"] = Base[exit.of.src] /\ new["busy"] = seen.busy \union {exit.of.src}
    OBVIOUS
  <2> HIDE DEF v, p, new
  <2>4. shadow' = shadow /\ tlb' \subseteq tlb \ {}
    BY <1>3 DEF Keep
  <2>5. {"tr", "tr_base"} \subseteq Switched \ (Context \union Masked \union {"cpl"})
    BY DEF Switched, Context, Masked
  <2>6. Returns(Nothing, v, p) /\ UNCHANGED <<inject, suppress>> /\ PInv'
    <3>1. "busy" \notin DebugControls
      BY <2>1, RegistersAre
    <3> QED
      BY <1>1, <2>1, <2>2, <2>3, <2>4, <2>5, <3>1, Kept, NothingIs
  <2>7. ASSUME NoGap(exit.of, exit.reason, seen)
        PROVE  Bare!Step(exit.of)
    <3>1. Base[exit.of.src] = seen["tr_base"]
      BY <1>5, <2>7 DEF NoGap, InHost
    <3>2. /\ Back(Nothing, v, p, "tr") = new["tr"]
          /\ Back(Nothing, v, p, "tr_base") = new["tr_base"]
          /\ Back(Nothing, v, p, "busy") = new["busy"]
      BY <2>1, <2>3, <3>1, NothingIs DEF Back, InEffect
    <3>3. {"tr", "tr_base", "busy"} \subseteq File
      BY <2>1, <2>5, RegistersAre
    <3>4. Written(new, Nothing, v, p)
      BY <2>3, <3>2, <3>3, NothingIs DEF Written
    <3>5. DOMAIN new \subseteq File \ {"rip"}
      BY <2>3, <3>3
    <3>6. Bare!Retire(exit.of, new, {})
      BY <1>1, <2>4, <2>6, <3>4, <3>5, Completed, NothingIs
    <3>7. Bare!Ltr(exit.of)
      BY <1>2, <1>5, <3>6 DEF Bare!Ltr, InHost, new
    <3> QED
      BY <3>7 DEF Bare!Step
  <2> QED
    BY <2>6, <2>7
<1> QED
  BY <1>4, <1>5 DEF HandleLdtrTrAccess

LEMMA IoDone ==
  ASSUME PInv, HandleIo
  PROVE  PInv' /\ (NoGap(exit.of, exit.reason, seen) => Bare!Step(exit.of))
<1>1. mode = "host" /\ exit.of.op \in {"in", "out"} /\ exit.reason = "instruction"
  BY DEF HandleIo, InHost
<1>2. HostInv /\ ctx.rax = exit.of.src /\ GuestRegs = seen /\ Bare!Allowed(exit.of)
      /\ exit.of \in Instructions
  BY <1>1, HostIs DEF ReasonInv, HostInv, Debug
<1>3. Keep /\ "port" \in File \ (Switched \union Context)
  BY RegistersAre DEF HandleIo, Switched, Context
<1>4. cpu.port = seen.port
  BY <1>2, <1>3 DEF HostInv
<1>5. NoGap(exit.of, exit.reason, seen) => exit.of.reg = "dx"
  <2>1. exit.of.reg \in Targets(exit.of.op)
    BY <1>1, <1>2, PassthroughAssumption DEF Targeted
  <2>2. Targets(exit.of.op) = {"dx", "immediate"}
    BY <1>1 DEF Targets, Debug
  <2> QED
    BY <2>1, <2>2 DEF NoGap
<1>6. CASE InHost("in")
  <2> DEFINE value == IF exit.of.reg = "dx" THEN cpu.port ELSE ctx.rax
  <2>1. PInv' /\ Bare!Retire(exit.of, [rax |-> value], {})
    BY <1>1, <1>3, <1>6, RaxWritten DEF HandleIo, InHost
  <2>2. exit.of.reg = "dx" => Bare!In(exit.of)
    BY <1>2, <1>4, <1>6, <2>1 DEF Bare!In, InHost
  <2> QED
    BY <1>5, <2>1, <2>2 DEF Bare!Step
<1>7. CASE InHost("out")
  <2> DEFINE value == IF exit.of.reg = "dx" THEN ctx.rax ELSE cpu.port
  <2>1. PInv' /\ Bare!Retire(exit.of, [port |-> value], {})
    BY <1>1, <1>3, <1>7, SharedWritten DEF HandleIo, InHost
  <2>2. exit.of.reg = "dx" => Bare!Out(exit.of)
    BY <1>2, <1>7, <2>1 DEF Bare!Out, InHost
  <2> QED
    BY <1>5, <2>1, <2>2 DEF Bare!Step
<1> QED
  BY <1>6, <1>7 DEF HandleIo

LEMMA InvlpgDone ==
  ASSUME PInv, HandleInvlpg
  PROVE  PInv' /\ Bare!Step(exit.of)
<1>1. mode = "host" /\ exit.of.op = "invlpg" /\ exit.reason = "instruction"
  BY DEF HandleInvlpg, InHost
<1>2. Bare!Allowed(exit.of)
  BY <1>1, HostIs DEF ReasonInv, Debug
<1>3. PInv' /\ Bare!Retire(exit.of, Nothing, Bare!At(exit.of.reg))
  <2>1. /\ Emulate(Nothing, Nothing, Nothing) /\ shadow' = shadow
        /\ tlb' \subseteq tlb \ Bare!At(exit.of.reg)
    BY DEF HandleInvlpg, InvvpidAddress
  <2> QED
    BY <1>1, <2>1, NothingWritten
<1>4. Bare!Invlpg(exit.of)
  BY <1>1, <1>2, <1>3 DEF Bare!Invlpg, Nothing, Bare!Nothing
<1> QED
  BY <1>3, <1>4 DEF Bare!Step

LEMMA InvpcidDone ==
  ASSUME PInv, HandleInvpcid
  PROVE  PInv' /\ Bare!Step(exit.of)
<1>1. mode = "host" /\ exit.of.op = "invpcid" /\ exit.reason = "instruction"
  BY DEF HandleInvpcid, InHost
<1>2. /\ HostInv /\ ctx.rax = exit.of.src /\ vmcs.cr4 = seen.cr4 /\ GuestRegs = seen
      /\ Bare!Allowed(exit.of)
  BY <1>1, HostIs DEF ReasonInv, HostInv, Debug, Loaded, DebugControls, Switched
<1>3. InvpcidFaults <=> \/ exit.of.reg = "invalid"
                        \/ /\ exit.of.src # {} /\ exit.of.reg \in {"address", "context"}
                           /\ "pcide" \notin GuestRegs.cr4
  BY <1>2 DEF InvpcidFaults
<1>4. CASE InvpcidFaults
  <2>1. Inject("GP", Nothing, Nothing)
    BY <1>4 DEF HandleInvpcid
  <2>2. Written(Nothing, Nothing, Nothing, Nothing)
    BY NothingIs DEF Written
  <2>3. PInv' /\ Bare!Raise(exit.of, "GP", seen.rip, Nothing)
    BY <1>1, <2>1, <2>2, Injected, NothingIs DEF EventRip
  <2>4. Bare!Invpcid(exit.of)
    BY <1>1, <1>2, <1>3, <1>4, <2>3 DEF Bare!Invpcid, Bare!Fault, Nothing, Bare!Nothing
  <2> QED
    BY <2>3, <2>4 DEF Bare!Step
<1>5. CASE ~InvpcidFaults
  <2> DEFINE stale == Bare!StaleByInvpcid(exit.of)
  <2>1. tlb' \subseteq tlb \ stale
    <3>1. CASE exit.of.reg = "address"
      <4>1. stale \subseteq Bare!At("user") /\ tlb' = tlb \ Bare!At("user")
        BY <1>5, <3>1 DEF HandleInvpcid, InvvpidAddress, Bare!StaleByInvpcid
      <4> QED
        BY <4>1
    <3>2. CASE exit.of.reg \in {"context", "all"}
      BY <1>5, <3>2 DEF HandleInvpcid, InvvpidAll
    <3>3. CASE exit.of.reg = "all_but_global"
      <4>1. stale = Translations \ Bare!Globals /\ tlb' = tlb \cap Bare!Globals
        BY <1>5, <3>3 DEF HandleInvpcid, InvvpidNonGlobal, Bare!StaleByInvpcid
      <4> QED
        BY <4>1
    <3> QED
      BY <1>5, <3>1, <3>2, <3>3 DEF HandleInvpcid
  <2> HIDE DEF stale
  <2>2. Emulate(Nothing, Nothing, Nothing) /\ shadow' = shadow
    BY <1>5 DEF HandleInvpcid
  <2>3. PInv' /\ Bare!Retire(exit.of, Nothing, stale)
    BY <1>1, <2>1, <2>2, NothingWritten
  <2>4. Bare!Invpcid(exit.of)
    BY <1>1, <1>2, <1>3, <1>5, <2>3 DEF Bare!Invpcid, Nothing, Bare!Nothing, stale
  <2> QED
    BY <2>3, <2>4 DEF Bare!Step
<1> QED
  BY <1>4, <1>5

\* An event with no register written.
LEMMA Faulted ==
  ASSUME PInv, mode = "host", NEW vector \in {"GP", "UD", "DB", "PF", "BP"},
         Inject(vector, Nothing, Nothing)
  PROVE  /\ PInv'
         /\ Bare!Raise(exit.of, vector, EventRip(vector, seen.rip), Bare!Nothing)
         /\ vector # "BP" => Bare!Fault(exit.of, vector, Bare!Nothing)
<1>1. Written(Nothing, Nothing, Nothing, Nothing)
  BY NothingIs DEF Written
<1>2. PInv' /\ Bare!Raise(exit.of, vector, EventRip(vector, seen.rip), Nothing)
  BY <1>1, Injected, NothingIs
<1>3. GuestRegs = seen /\ Bare!Nothing = Nothing
  BY HostIs DEF Nothing, Bare!Nothing
<1> QED
  BY <1>2, <1>3 DEF EventRip, Bare!Fault

LEMMA VmFallbackDone ==
  ASSUME PInv, HandleVmFallback
  PROVE  PInv' /\ Bare!Step(exit.of)
<1>1. mode = "host" /\ exit.of.op = "vmx"
  BY DEF HandleVmFallback, InHost
<1>2. PInv' /\ Bare!Fault(exit.of, "UD", Bare!Nothing)
  BY <1>1, Faulted DEF HandleVmFallback
<1>3. Bare!Vmx(exit.of)
  BY <1>1, <1>2 DEF Bare!Vmx
<1> QED
  BY <1>2, <1>3 DEF Bare!Step

LEMMA DebugRegister ==
  ASSUME NEW i \in Instructions, i.op \in Debug
  PROVE  /\ Renumber(i.reg) \in {"dr7"} \union (File \ (Switched \union Context))
         /\ Renumber(i.reg) = Bare!Alias(i.reg)
         /\ Renumber(i.reg) # i.reg <=> i.reg \in {"dr4", "dr5"}
<1>1. i.reg \in {"dr4", "dr5", "dr7"} \union ({"dr0", "dr1", "dr2", "dr3", "dr6"} \cap File)
  BY PassthroughAssumption DEF Targeted, Targets, Debug, File
<1>2. Renumber(i.reg) = IF i.reg = "dr4" THEN "dr6" ELSE IF i.reg = "dr5" THEN "dr7" ELSE i.reg
  BY <1>1 DEF Renumber
<1>3. Bare!Alias(i.reg) = Renumber(i.reg)
  BY DEF Renumber, Bare!Alias
<1>4. "dr6" \in File
  BY RegistersAre
<1>5. {"dr0", "dr1", "dr2", "dr3", "dr6"} \cap (Switched \union Context) = {}
  BY DEF Switched, Context
<1> QED
  BY <1>1, <1>2, <1>3, <1>4, <1>5

LEMMA MovDrDone ==
  ASSUME PInv, HandleMovDr
  PROVE  PInv' /\ (GapInv => Bare!Step(exit.of))
<1>1. mode = "host" /\ exit.reason = "instruction" /\ exit.of.op \in Debug
  BY DEF HandleMovDr
<1>2. /\ HostInv /\ GuestRegs = seen /\ exit.of \in Instructions
      /\ ctx.rax = exit.of.src /\ seen.dr7 = vmcs.dr7 \cap {"gd"}
      /\ vmcs.cr4 = seen.cr4 /\ vmcs.cpl = seen.cpl
  BY <1>1, HostIs DEF ReasonInv, HostInv, Switched, Loaded, DebugControls, InEffect
<1>3. Bare!Allowed(exit.of) <=> seen.cpl = 0
  BY <1>1, <1>2 DEF Bare!Allowed, Bare!Unprivileged, Debug
<1>4. exit.of.op \in {"mov_to_dr", "mov_from_dr"}
  BY <1>1 DEF Debug
<1> DEFINE dr == Renumber(exit.of.reg)
           value == IF dr = "dr7" THEN vmcs.dr7 ELSE cpu[dr]
           reserved == dr # exit.of.reg /\ "de" \in seen.cr4
<1>5. /\ dr \in {"dr7"} \union (File \ (Switched \union Context))
      /\ dr = Bare!Alias(exit.of.reg)
      /\ Reserved(exit.of.reg) <=> reserved
  BY <1>1, <1>2, DebugRegister DEF Reserved
<1>6. GapInv => value = seen[dr]
  BY <1>2, <1>5 DEF HostInv, GapInv, Controls
<1>7. "dr6" \in File \ (Switched \union Context) /\ "dr7" \in File
      /\ "dr7" \in Switched \ (Context \union Masked \union {"cpl"})
  BY RegistersAre DEF Switched, Context, Masked
<1>8. CASE vmcs.cpl # 0
  <2>1. PInv' /\ Bare!Fault(exit.of, "GP", Bare!Nothing)
    BY <1>1, <1>8, Faulted DEF HandleMovDr
  <2>2. Bare!Forbidden(exit.of)
    BY <1>2, <1>3, <1>8, <2>1 DEF Bare!Forbidden
  <2> QED
    BY <2>1, <2>2 DEF Bare!Step
<1>9. CASE vmcs.cpl = 0 /\ reserved
  <2>1. PInv' /\ Bare!Fault(exit.of, "UD", Bare!Nothing)
    <3>1. Inject("UD", Nothing, Nothing)
      BY <1>5, <1>9 DEF HandleMovDr
    <3> QED
      BY <1>1, <3>1, Faulted
  <2>2. Bare!MovDr(exit.of)
    BY <1>2, <1>3, <1>4, <1>5, <1>9, <2>1 DEF Bare!MovDr
  <2> QED
    BY <2>1, <2>2 DEF Bare!Step
<1>10. CASE vmcs.cpl = 0 /\ ~reserved /\ "gd" \in vmcs.dr7
  <2> DEFINE v == [dr7 |-> vmcs.dr7 \ {"gd"}]
             p == [dr6 |-> (seen.dr6 \ {"b0"}) \union {"bd"}]
             new == [dr6 |-> (seen.dr6 \ {"b0"}) \union {"bd"}, dr7 |-> seen.dr7 \ {"gd"}]
  <2>1. /\ DOMAIN v = {"dr7"} /\ v["dr7"] = vmcs.dr7 \ {"gd"}
        /\ DOMAIN p = {"dr6"} /\ p["dr6"] = (seen.dr6 \ {"b0"}) \union {"bd"}
        /\ DOMAIN new = {"dr6", "dr7"} /\ new["dr7"] = seen.dr7 \ {"gd"}
        /\ new["dr6"] = (seen.dr6 \ {"b0"}) \union {"bd"}
    OBVIOUS
  <2>2. Inject("DB", v, p)
    <3>1. Inject("DB", [dr7 |-> vmcs.dr7 \ {"gd"}],
                 [dr6 |-> (cpu.dr6 \ {"b0"}) \union {"bd"}])
      BY <1>5, <1>10 DEF HandleMovDr
    <3>2. cpu.dr6 = seen.dr6
      BY <1>2, <1>7 DEF HostInv
    <3> QED
      BY <1>2, <3>1, <3>2
  <2> HIDE DEF v, p, new
  <2>3. Written(new, Nothing, v, p)
    <3>1. InEffect("dr7", v["dr7"]) = new["dr7"]
      BY <1>2, <2>1 DEF InEffect
    <3> QED
      BY <1>7, <2>1, <3>1, NothingIs DEF Written, Back
  <2>4. PInv' /\ Bare!Raise(exit.of, "DB", seen.rip, new)
    <3>1. DOMAIN v \subseteq {"dr7"} /\ DOMAIN p \subseteq {"cr2", "dr6"}
          /\ DOMAIN new \subseteq {"dr7", "cr2", "dr6"}
      BY <2>1
    <3>2. PInv' /\ Bare!Raise(exit.of, "DB", EventRip("DB", seen.rip), new)
      BY <1>1, <2>2, <2>3, <3>1, Injected
    <3> QED
      BY <3>2 DEF EventRip
  <2>5. Bare!MovDr(exit.of)
    BY <1>2, <1>3, <1>4, <1>5, <1>10, <2>4 DEF Bare!MovDr, Bare!Fault, new
  <2> QED
    BY <2>4, <2>5 DEF Bare!Step
<1>11. CASE vmcs.cpl = 0 /\ ~reserved /\ "gd" \notin vmcs.dr7
  <2>1. IF exit.of.op = "mov_from_dr" THEN Emulate([rax |-> value], Nothing, Nothing) /\ Keep
        ELSE IF dr \in {"dr6", "dr7"} /\ "b40" \in ctx.rax
        THEN Inject("GP", Nothing, Nothing)
        ELSE /\ IF dr = "dr7" THEN Emulate(Nothing, [dr7 |-> ctx.rax], Nothing)
                              ELSE Emulate(Nothing, Nothing, [r \in {dr} |-> ctx.rax])
             /\ Keep
    BY <1>5, <1>11 DEF HandleMovDr
  <2>2. CASE exit.of.op = "mov_from_dr"
    <3>1. PInv' /\ Bare!Retire(exit.of, [rax |-> value], {})
      BY <1>1, <2>1, <2>2, RaxWritten
    <3>2. GapInv => Bare!MovDr(exit.of)
      BY <1>2, <1>3, <1>5, <1>6, <1>11, <2>2, <3>1 DEF Bare!MovDr
    <3> QED
      BY <3>1, <3>2 DEF Bare!Step
  <2>3. CASE exit.of.op = "mov_to_dr" /\ dr \in {"dr6", "dr7"} /\ "b40" \in ctx.rax
    <3>1. PInv' /\ Bare!Fault(exit.of, "GP", Bare!Nothing)
      <4>1. Inject("GP", Nothing, Nothing)
        BY <2>1, <2>3
      <4> QED
        BY <1>1, <4>1, Faulted
    <3>2. exit.of.src \cap Bare!Upper # {}
      BY <1>2, <2>3 DEF Bare!Upper
    <3>3. Bare!MovDr(exit.of)
      BY <1>2, <1>3, <1>5, <1>11, <2>3, <3>1, <3>2 DEF Bare!MovDr
    <3> QED
      BY <3>1, <3>3 DEF Bare!Step
  <2>4. CASE exit.of.op = "mov_to_dr" /\ ~(dr \in {"dr6", "dr7"} /\ "b40" \in ctx.rax)
    <3> DEFINE new == [r \in {dr} |-> exit.of.src]
    <3>1. DOMAIN new = {dr} /\ new[dr] = exit.of.src
      OBVIOUS
    <3>2. PInv' /\ (GapInv => Bare!Retire(exit.of, new, {}))
      <4>1. CASE dr = "dr7"
        <5>1. new = [dr7 |-> exit.of.src]
          BY <4>1
        <5>2. Emulate(Nothing, new, Nothing) /\ Keep
          BY <1>2, <2>1, <2>4, <4>1, <5>1
        <5>3. ASSUME GapInv
              PROVE  InEffect("dr7", exit.of.src) = exit.of.src
          <6>1. Unloaded(exit.of) = {}
            BY <1>1, <5>3 DEF GapInv, NoGap
          <6>2. exit.of.src \ {"gd", "b40"} = {}
            BY <2>4, <4>1, <6>1 DEF Unloaded
          <6>3. "b40" \notin exit.of.src
            BY <1>2, <2>4, <4>1
          <6> QED
            BY <6>2, <6>3 DEF InEffect
        <5> HIDE DEF new
        <5> QED
          BY <1>1, <1>7, <3>1, <4>1, <5>2, <5>3, SwitchedWritten
      <4>2. CASE dr # "dr7"
        <5>1. dr \in File \ (Switched \union Context)
          BY <1>5, <4>2
        <5>2. Emulate(Nothing, Nothing, new) /\ Keep
          BY <1>2, <2>1, <2>4, <4>2
        <5> HIDE DEF new, dr
        <5> QED
          BY <1>1, <3>1, <5>1, <5>2, SharedWritten
      <4> QED
        BY <4>1, <4>2
    <3>3. ~(dr \in {"dr6", "dr7"} /\ exit.of.src \cap Bare!Upper # {})
      BY <1>2, <2>4 DEF Bare!Upper
    <3>4. GapInv => Bare!MovDr(exit.of)
      BY <1>2, <1>3, <1>5, <1>11, <2>4, <3>2, <3>3 DEF Bare!MovDr
    <3> QED
      BY <3>2, <3>4 DEF Bare!Step
  <2> QED
    BY <1>4, <2>2, <2>3, <2>4
<1> QED
  BY <1>8, <1>9, <1>10, <1>11

---------------------------------------------------------------------------
\* A handler that sets rip itself.
LEMMA CompletedElsewhere ==
  ASSUME PInv, mode = "host", NEW c, NEW v, Returns(c, v, Nothing), inject' = inject,
         suppress' = TRUE, tlb' = tlb, "rip" \in DOMAIN c,
         NEW new, Written(new, c, v, Nothing)
  PROVE  PInv' /\ Bare!Retire(exit.of, new, {})
<1>1. HostInv /\ GuestRegs = seen /\ IsFile(seen, File)
  BY HostIs DEF HostInv
<1>2. inject' = None
  BY <1>1 DEF HostInv
<1>3. EntryRip' = c["rip"]
  BY RipEntered DEF BackRip
<1> DEFINE now == [rip |-> seen.rip + 1, rax |-> exit.of.src]
           after == new \oplus now \oplus seen
<1>4. DOMAIN now = {"rip", "rax"} /\ now["rax"] = exit.of.src
  OBVIOUS
<1>5. DOMAIN now \subseteq File /\ DOMAIN new \subseteq File
  BY <1>4, RegistersAre DEF Context, Written
<1> HIDE DEF now
<1>6. /\ IsFile(after, File)
      /\ \A r \in File : after[r] = IF r \in DOMAIN new THEN new[r]
                                    ELSE IF r \in DOMAIN now THEN now[r] ELSE seen[r]
  BY <1>1, <1>5, OverTwo DEF TwoOver
<1> HIDE DEF after
<1>7. \A r \in File : GuestRegs'[r] = after[r]
  <2> TAKE r \in File
  <2>1. GuestRegs'[r] = Back(c, v, Nothing, r)
    <3>1. GuestRegs'[r] = IF r = "rip" THEN c["rip"] ELSE Back(c, v, Nothing, r)
      BY <1>2, <1>3, GuestEntered
    <3>2. r = "rip" => Back(c, v, Nothing, r) = c["rip"]
      BY DEF Back
    <3> QED
      BY <3>1, <3>2
  <2>2. CASE r \in DOMAIN new
    BY <1>6, <2>1, <2>2 DEF Written
  <2>3. CASE r \notin DOMAIN new
    <3>1. Back(c, v, Nothing, r) = IF r = "rax" THEN exit.of.src ELSE seen[r]
      BY <2>3, NothingIs DEF Written, Back
    <3>2. r # "rip"
      BY <2>3 DEF Written
    <3>3. after[r] = IF r = "rax" THEN exit.of.src ELSE seen[r]
      BY <1>4, <1>6, <2>3, <3>2
    <3> QED
      BY <2>1, <3>1, <3>3
  <2> QED
    BY <2>2, <2>3
<1>8. GuestLast' = [of |-> exit.of, vector |-> None, rip |-> 0]
  BY <1>2 DEF GuestLast, Report, Returns
<1>9. GuestRegs' = new \oplus [rip |-> GuestRegs.rip + 1, rax |-> exit.of.src] \oplus GuestRegs
  <2>1. GuestRegs' = after
    BY <1>6, <1>7, GuestEntered, SameFile
  <2> QED
    BY <1>1, <2>1 DEF after, now
<1>10. Bare!Retire(exit.of, new, {})
  BY <1>8, <1>9 DEF Bare!Retire, \oplus, Bare!\oplus
<1> QED
  BY <1>10, Returned

LEMMA SyscallDone ==
  ASSUME PInv, EmulateSyscall
  PROVE  PInv' /\ Bare!Step(exit.of)
<1>1. mode = "host" /\ exit.of.op = "syscall" /\ exit.reason = "UD"
  BY DEF EmulateSyscall, Fetched
<1>2. HostInv /\ GuestRegs = seen
  BY <1>1, HostIs
<1>3. ctx.rip = seen.rip /\ ctx.rflags = seen.rflags /\ cpu.lstar = seen.lstar
  BY <1>2, RegistersAre DEF HostInv, Switched, Context
<1> DEFINE c == [rip |-> Bare!Address(seen.lstar), rcx |-> seen.rip + 1,
                 r11 |-> seen.rflags, rflags |-> seen.rflags \ Bare!Fmask]
           v == [cpl |-> 0]
           new == [rip |-> Bare!Address(seen.lstar), rcx |-> seen.rip + 1, cpl |-> 0,
                   r11 |-> seen.rflags, rflags |-> seen.rflags \ Bare!Fmask]
<1>4. Complete(c, v, Nothing) /\ suppress' = TRUE /\ tlb' = tlb /\ shadow' = shadow
  BY <1>3 DEF EmulateSyscall, Keep
<1>5. /\ DOMAIN c = {"rip", "rcx", "r11", "rflags"} /\ DOMAIN v = {"cpl"} /\ v["cpl"] = 0
      /\ DOMAIN new = {"rip", "rcx", "cpl", "r11", "rflags"} /\ new["cpl"] = 0
      /\ \A r \in DOMAIN c : new[r] = c[r]
  OBVIOUS
<1> HIDE DEF c, v, new
<1>6. "cpl" \in Switched \ Context /\ DOMAIN c \subseteq Context /\ "cpl" \notin Masked
      /\ DOMAIN new \subseteq File
  BY <1>5, RegistersAre DEF Switched, Context, Masked
<1>7. Returns(c, v, Nothing) /\ inject' = inject
  <2>1. IsFile(shadow', Masked)
    BY <1>4 DEF PInv, FilesInv
  <2> QED
    BY <1>4, <1>5, <1>6, <2>1, NothingIs DEF Complete, Returns
<1>8. Written(new, c, v, Nothing)
  BY <1>5, <1>6, NothingIs DEF Written, Back, InEffect
<1>9. PInv' /\ Bare!Retire(exit.of, new, {})
  BY <1>1, <1>4, <1>5, <1>7, <1>8, CompletedElsewhere
<1>10. Bare!Syscall(exit.of)
  BY <1>1, <1>2, <1>9 DEF Bare!Syscall, new
<1> QED
  BY <1>9, <1>10 DEF Bare!Step

LEMMA SysretDone ==
  ASSUME PInv, EmulateSysret
  PROVE  PInv' /\ (NoGap(exit.of, exit.reason, seen) => Bare!Step(exit.of))
<1>1. mode = "host" /\ exit.of.op = "sysret" /\ exit.reason = "UD"
  BY DEF EmulateSysret, Fetched
<1>2. HostInv /\ GuestRegs = seen
  BY <1>1, HostIs
<1>3. ctx.rcx = seen.rcx /\ ctx.r11 = seen.r11
  BY <1>2 DEF HostInv, Context
<1> DEFINE c == [rip |-> seen.rcx, rflags |-> seen.r11 \ {"rf"}]
           v == [cpl |-> 3]
           new == [rip |-> seen.rcx, cpl |-> 3, rflags |-> seen.r11 \ {"rf"}]
<1>4. Complete(c, v, Nothing) /\ suppress' = TRUE /\ tlb' = tlb /\ shadow' = shadow
  BY <1>3 DEF EmulateSysret, Keep
<1>5. /\ DOMAIN c = {"rip", "rflags"} /\ DOMAIN v = {"cpl"} /\ v["cpl"] = 3
      /\ DOMAIN new = {"rip", "cpl", "rflags"} /\ new["cpl"] = 3
      /\ \A r \in DOMAIN c : new[r] = c[r]
  OBVIOUS
<1> HIDE DEF c, v, new
<1>6. "cpl" \in Switched \ Context /\ DOMAIN c \subseteq Context /\ "cpl" \notin Masked
      /\ DOMAIN new \subseteq File
  BY <1>5, RegistersAre DEF Switched, Context, Masked
<1>7. Returns(c, v, Nothing) /\ inject' = inject
  <2>1. IsFile(shadow', Masked)
    BY <1>4 DEF PInv, FilesInv
  <2> QED
    BY <1>4, <1>5, <1>6, <2>1, NothingIs DEF Complete, Returns
<1>8. Written(new, c, v, Nothing)
  BY <1>5, <1>6, NothingIs DEF Written, Back, InEffect
<1>9. PInv' /\ Bare!Retire(exit.of, new, {})
  BY <1>1, <1>4, <1>5, <1>7, <1>8, CompletedElsewhere
<1>10. ASSUME NoGap(exit.of, exit.reason, seen)
       PROVE  Bare!Step(exit.of)
  <2>1. seen.cpl = 0
    BY <1>1, <1>2, <1>10 DEF NoGap, HostInv
  <2>2. Bare!Sysret(exit.of)
    BY <1>1, <1>2, <1>9, <2>1 DEF Bare!Sysret, Bare!Allowed, new
  <2> QED
    BY <2>2 DEF Bare!Step
<1> QED
  BY <1>9, <1>10

\* #PF with the address in CR2.
LEMMA PageFaulted ==
  ASSUME PInv, mode = "host", NEW address, Inject("PF", Nothing, [cr2 |-> address])
  PROVE  PInv' /\ Bare!Fault(exit.of, "PF", [cr2 |-> address])
<1> DEFINE p == [cr2 |-> address]
<1>1. DOMAIN p = {"cr2"} /\ p["cr2"] = address
  OBVIOUS
<1>2. Inject("PF", Nothing, p)
  OBVIOUS
<1> HIDE DEF p
<1>3. "cr2" \in File /\ "cr2" \notin Switched
  BY RegistersAre DEF Switched
<1>4. Written(p, Nothing, Nothing, p)
  BY <1>1, <1>3, NothingIs DEF Written, Back
<1>5. PInv' /\ Bare!Raise(exit.of, "PF", EventRip("PF", seen.rip), p)
  BY <1>1, <1>2, <1>4, Injected, NothingIs
<1>6. GuestRegs = seen
  BY HostIs
<1> QED
  BY <1>5, <1>6 DEF Bare!Fault, EventRip, p

LEMMA UnreadableDone ==
  ASSUME PInv, HandleUnreadable
  PROVE  PInv' /\ Bare!Step(exit.of)
<1>1. mode = "host"
  BY DEF HandleUnreadable, Fetched
<1>2. PInv' /\ Bare!Fault(exit.of, "PF", [cr2 |-> {"code"}])
  BY <1>1, PageFaulted DEF HandleUnreadable
<1>3. Bare!FetchFault(exit.of)
  BY <1>2 DEF Bare!FetchFault
<1> QED
  BY <1>2, <1>3 DEF Bare!Step

LEMMA ReinjectDone ==
  ASSUME PInv, Reinject
  PROVE  PInv' /\ Bare!Step(exit.of)
<1>1. mode = "host"
  BY DEF Reinject, Fetched
<1>2. ReasonInv /\ GuestRegs = seen /\ (Bare!Allowed(exit.of) <=> Permitted(exit.of, seen))
  BY <1>1, HostIs
<1>3. CASE Fetched("GP") /\ Inject("GP", Nothing, Nothing)
  <2>1. PInv' /\ Bare!Fault(exit.of, "GP", Bare!Nothing)
    BY <1>1, <1>3, Faulted
  <2>2. Bare!Forbidden(exit.of)
    BY <1>2, <1>3, <2>1 DEF Bare!Forbidden, ReasonInv, Fetched
  <2> QED
    BY <2>1, <2>2 DEF Bare!Step
<1>4. CASE Fetched("BP") /\ Inject("BP", Nothing, Nothing)
  <2>1. PInv' /\ Bare!Raise(exit.of, "BP", seen.rip + 1, Bare!Nothing)
    BY <1>1, <1>4, Faulted DEF EventRip
  <2>2. Bare!Int3(exit.of)
    BY <1>2, <1>4, <2>1 DEF Bare!Int3, ReasonInv, Fetched
  <2> QED
    BY <2>1, <2>2 DEF Bare!Step
<1>5. CASE Fetched("PF") /\ Inject("PF", Nothing, [cr2 |-> FaultAddress])
  <2>1. PInv' /\ Bare!Fault(exit.of, "PF", [cr2 |-> FaultAddress])
    BY <1>1, <1>5, PageFaulted
  <2>2. Bare!Access(exit.of)
    BY <1>2, <1>5, <2>1 DEF Bare!Access, ReasonInv, Fetched, FaultAddress
  <2> QED
    BY <2>1, <2>2 DEF Bare!Step
<1>6. CASE /\ Fetched("UD") /\ exit.of.op \notin FastSystem
           /\ Inject("UD", Nothing, Nothing)
  <2>1. PInv' /\ Bare!Fault(exit.of, "UD", Bare!Nothing)
    BY <1>1, <1>6, Faulted
  <2>2. Bare!Vmx(exit.of)
    BY <1>2, <1>6, <2>1 DEF Bare!Vmx, ReasonInv, Fetched, Undefined
  <2> QED
    BY <2>1, <2>2 DEF Bare!Step
<1> QED
  BY <1>3, <1>4, <1>5, <1>6 DEF Reinject

---------------------------------------------------------------------------
(***************************************************************************)
(* What the guest does without the hypervisor.                             *)
(***************************************************************************)
\* While the guest runs, a register is what it sees of it, but for GD.
SeenFile(f, s, d) ==
  [r \in DOMAIN f |-> IF r \in Masked THEN s[r]
                      ELSE IF r = "dr7" THEN (f[r] \ {"gd"}) \union (d \cap {"gd"})
                      ELSE f[r]]

Shadows(s, f) == \A r \in Masked : s[r] = f[r]
SeenIs(g, f, d) ==
  /\ IsFile(g, File)
  /\ \A r \in File : g[r] = IF r = "dr7" THEN d \cap {"gd"} ELSE f[r]

LEMMA SeenFileIs ==
  ASSUME NEW f, NEW s, NEW d, IsFile(f, File), f["dr7"] = {}, Shadows(s, f)
  PROVE  SeenIs(SeenFile(f, s, d), f, d)
<1>1. DOMAIN f = File /\ "dr7" \notin Masked
  BY FileIs DEF Masked
<1> QED
  BY <1>1 DEF SeenFile, IsFile, SeenIs, Shadows

SeenOf(r) == IF r = "dr7" THEN vmcs["dr7"] \cap {"gd"} ELSE cpu[r]

LEMMA GuestIs ==
  ASSUME PInv, mode = "guest"
  PROVE  /\ IsFile(cpu, File) /\ GuestInv /\ GuestLast = last
         /\ IsFile(GuestRegs, File) /\ \A r \in File : GuestRegs[r] = SeenOf(r)
         /\ \A i : Bare!Allowed(i) <=> Permitted(i, cpu)
<1>1. IsFile(cpu, File) /\ GuestInv /\ cpu["dr7"] = {}
  BY DEF PInv, FilesInv, DebugControls
<1>2. GuestRegs = SeenFile(cpu, shadow, vmcs["dr7"])
  BY DEF GuestRegs, Guest, SeenFile
<1>3. Shadows(shadow, cpu)
  BY <1>1 DEF GuestInv, Shadows
<1>4. SeenIs(GuestRegs, cpu, vmcs["dr7"])
  BY <1>1, <1>2, <1>3, SeenFileIs
<1>5. IsFile(GuestRegs, File) /\ \A r \in File : GuestRegs[r] = SeenOf(r)
  BY <1>4 DEF SeenIs, SeenOf
<1>6. GuestRegs["cpl"] = cpu["cpl"]
  <2>1. "cpl" \in File
    BY RegistersAre DEF Switched
  <2> QED
    BY <1>5, <2>1 DEF SeenOf
<1> QED
  BY <1>1, <1>5, <1>6 DEF GuestLast, Bare!Allowed, Permitted

\* The register file after an instruction that leaves new.
AfterRetire(i, new, r) ==
  IF r \in DOMAIN new THEN new[r]
  ELSE IF r = "rip" THEN cpu.rip + 1
  ELSE IF r = "rax" THEN i.src ELSE cpu[r]

LEMMA Ran ==
  ASSUME PInv, mode = "guest", NEW i, NEW now, DOMAIN now \subseteq File \ (Masked \union DebugControls),
         "cpl" \in DOMAIN now => now["cpl"] \in {0, 3},
         cpu' = now \oplus cpu, last' = [of |-> i, vector |-> None, rip |-> 0],
         UNCHANGED <<mode, vmcs, shadow, ctx, tlb, inject>>,
         NEW new, DOMAIN new \subseteq File \ DebugControls,
         \A r \in File : AfterRetire(i, new, r) = IF r \in DOMAIN now THEN now[r] ELSE cpu[r]
  PROVE  PInv' /\ Bare!Retire(i, new, {})
<1>1. /\ IsFile(cpu, File) /\ GuestInv
      /\ IsFile(GuestRegs, File) /\ \A r \in File : GuestRegs[r] = SeenOf(r)
  BY GuestIs
<1>2. IsFile(cpu', File)
  BY <1>1, OverFile
<1>3. \A r \in File : cpu'[r] = IF r \in DOMAIN now THEN now[r] ELSE cpu[r]
  <2>1. \A r \in File : (now \oplus cpu)[r] = IF r \in DOMAIN now THEN now[r] ELSE cpu[r]
    BY <1>1, OverAt
  <2> QED
    BY <2>1
<1>4. PInv'
  <2>1. FilesInv'
    <3>1. \A r \in DebugControls : r \in File /\ r \notin DOMAIN now /\ cpu[r] = {}
      BY RegistersAre DEF PInv, FilesInv
    <3>2. \A r \in DebugControls : cpu'[r] = {}
      BY <1>3, <3>1
    <3> QED
      BY <1>2, <3>2 DEF PInv, FilesInv
  <2>2. \A r \in Masked : shadow'[r] = cpu'[r]
    <3> TAKE r \in Masked
    <3>1. r \in File /\ r \notin DOMAIN now
      BY RegistersAre
    <3>2. cpu'[r] = cpu[r]
      BY <1>3, <3>1
    <3> QED
      BY <1>1, <3>2 DEF GuestInv
  <2>3. cpu'.cpl \in {0, 3}
    <3>1. "cpl" \in File
      BY RegistersAre DEF Switched
    <3> QED
      BY <1>1, <1>3, <3>1 DEF GuestInv
  <2> QED
    BY <1>1, <2>1, <2>2, <2>3 DEF PInv, GuestInv
<1>5. /\ IsFile(GuestRegs', File) /\ GuestLast' = last'
      /\ \A r \in File : GuestRegs'[r] = IF r = "dr7" THEN vmcs["dr7"] \cap {"gd"} ELSE cpu'[r]
  <2>1. cpu'["dr7"] = {} /\ Shadows(shadow', cpu')
    BY <1>4 DEF PInv, FilesInv, GuestInv, DebugControls, Shadows
  <2>2. GuestRegs' = SeenFile(cpu', shadow', vmcs["dr7"]) /\ GuestLast' = last'
    BY DEF GuestRegs, Guest, SeenFile, GuestLast
  <2>3. SeenIs(GuestRegs', cpu', vmcs["dr7"])
    BY <1>2, <2>1, <2>2, SeenFileIs
  <2> QED
    BY <2>2, <2>3 DEF SeenIs
<1> DEFINE next == [rip |-> cpu.rip + 1, rax |-> i.src]
           after == new \oplus next \oplus GuestRegs
<1>6. DOMAIN next = {"rip", "rax"} /\ next["rip"] = cpu.rip + 1 /\ next["rax"] = i.src
  OBVIOUS
<1>7. DOMAIN next \subseteq File /\ DOMAIN new \subseteq File
  BY <1>6, RegistersAre DEF Context
<1> HIDE DEF next
<1>8. /\ IsFile(after, File)
      /\ \A r \in File : after[r] = IF r \in DOMAIN new THEN new[r]
                                    ELSE IF r \in DOMAIN next THEN next[r] ELSE GuestRegs[r]
  <2>1. IsFile(GuestRegs, File)
    BY <1>1
  <2>2. TwoOver(after, new, next, GuestRegs, File)
    BY <1>7, <2>1, OverTwo
  <2> QED
    BY <2>2 DEF TwoOver
<1> HIDE DEF after
<1>9. \A r \in File : after[r] = GuestRegs'[r]
  <2> TAKE r \in File
  <2>1. CASE r = "dr7"
    <3>1. r \notin DOMAIN new /\ r \notin DOMAIN next
      BY <1>6, <2>1 DEF DebugControls
    <3>2. after[r] = vmcs["dr7"] \cap {"gd"}
      BY <1>1, <1>8, <2>1, <3>1 DEF SeenOf
    <3>3. GuestRegs'[r] = vmcs["dr7"] \cap {"gd"}
      BY <1>5, <2>1
    <3> QED
      BY <3>2, <3>3
  <2>2. CASE r # "dr7"
    <3>1. GuestRegs[r] = cpu[r] /\ GuestRegs'[r] = cpu'[r]
      BY <1>1, <1>5, <2>2 DEF SeenOf
    <3>2. after[r] = AfterRetire(i, new, r)
      BY <1>6, <1>8, <3>1 DEF AfterRetire
    <3> QED
      BY <1>3, <3>1, <3>2
  <2> QED
    BY <2>1, <2>2
<1>10. GuestRegs["rip"] = cpu["rip"]
  <2>1. "rip" \in File
    BY RegistersAre DEF Context
  <2> QED
    BY <1>1, <2>1 DEF SeenOf
<1>11. GuestRegs' = new \oplus [rip |-> GuestRegs.rip + 1, rax |-> i.src] \oplus GuestRegs
  <2>1. GuestRegs' = after
    BY <1>5, <1>8, <1>9, SameFile
  <2> QED
    BY <1>10, <2>1 DEF after, next
<1>12. tlb' \subseteq tlb \ {}
  OBVIOUS
<1> QED
  BY <1>4, <1>5, <1>11, <1>12 DEF Bare!Retire, \oplus, Bare!\oplus

LEMMA ExecuteDone ==
  ASSUME PInv, NEW i \in Instructions, Execute(i)
  PROVE  PInv' /\ Bare!Step(i)
<1>1. mode = "guest" /\ Native(i) /\ Bare!Allowed(i)
  BY DEF Execute, Running
<1>2. /\ GuestInv /\ GuestRegs["cr0"] = cpu["cr0"] /\ GuestRegs["cr4"] = cpu["cr4"]
  <2>1. {"cr0", "cr4"} \subseteq File
    BY RegistersAre DEF Masked
  <2> QED
    BY <1>1, <2>1, GuestIs DEF SeenOf
<1>3. shadow.cr0 = cpu.cr0 /\ shadow.cr4 = cpu.cr4
  BY <1>2 DEF GuestInv, Masked
<1> DEFINE now == [rip |-> cpu.rip + 1,
                   rax |-> IF i.op = "mov_from_cr" THEN shadow[i.reg] ELSE i.src]
<1>4. /\ DOMAIN now = {"rip", "rax"} /\ now["rip"] = cpu.rip + 1
      /\ now["rax"] = IF i.op = "mov_from_cr" THEN shadow[i.reg] ELSE i.src
  OBVIOUS
<1>5. /\ cpu' = now \oplus cpu /\ last' = [of |-> i, vector |-> None, rip |-> 0]
      /\ UNCHANGED <<mode, vmcs, shadow, ctx, tlb, inject>>
  BY DEF Execute
<1> HIDE DEF now
<1>6. /\ DOMAIN now \subseteq File \ (Masked \union DebugControls)
      /\ {"cr0", "cr4", "rax"} \subseteq File \ DebugControls
  BY <1>4, RegistersAre DEF Context, Masked, DebugControls
<1>7. ASSUME NEW new, DOMAIN new \subseteq File \ ({"rip"} \union DebugControls),
             "rax" \in DOMAIN new => new["rax"] = now["rax"],
             "rax" \notin DOMAIN new => i.op # "mov_from_cr",
             \A r \in DOMAIN new \ {"rax"} : new[r] = cpu[r]
      PROVE  PInv' /\ Bare!Retire(i, new, {})
  <2>1. \A r \in File : AfterRetire(i, new, r) = IF r \in DOMAIN now THEN now[r] ELSE cpu[r]
    BY <1>4, <1>7 DEF AfterRetire
  <2>2. DOMAIN new \subseteq File \ DebugControls /\ "cpl" \notin DOMAIN now
    BY <1>4, <1>7
  <2> QED
    BY <1>1, <1>5, <1>6, <2>1, <2>2, Ran
<1>8. CASE i.op = "mov_from_cr" /\ i.reg # "cr3"
  <2>1. i.reg \in {"cr0", "cr4"}
    <3>1. i.reg \in Targets(i.op)
      BY <1>8, PassthroughAssumption DEF Targeted
    <3> QED
      BY <1>8, <3>1 DEF Targets, Debug
  <2> DEFINE new == [rax |-> cpu[i.reg]]
  <2>2. DOMAIN new = {"rax"} /\ new["rax"] = now["rax"]
    BY <1>3, <1>4, <1>8, <2>1
  <2> HIDE DEF new
  <2>3. PInv' /\ Bare!Retire(i, new, {})
    BY <1>6, <1>7, <2>2
  <2>4. Bare!MovFromCr(i)
    <3>1. GuestRegs[i.reg] = cpu[i.reg]
      BY <1>2, <2>1
    <3> QED
      BY <1>1, <1>8, <2>3, <3>1 DEF Bare!MovFromCr, new
  <2> QED
    BY <2>3, <2>4 DEF Bare!Step
<1>9. CASE i.op = "wbinvd"
  <2>1. PInv' /\ Bare!Retire(i, Nothing, {})
    BY <1>7, <1>9, NothingIs
  <2>2. Bare!Wbinvd(i)
    BY <1>1, <1>9, <2>1 DEF Bare!Wbinvd, Nothing, Bare!Nothing
  <2> QED
    BY <2>1, <2>2 DEF Bare!Step
<1>10. ASSUME i.op # "mov_from_cr"
       PROVE  /\ PInv'
              /\ Bare!Retire(i, [cr0 |-> cpu.cr0], {}) /\ Bare!Retire(i, [cr4 |-> cpu.cr4], {})
  <2> DEFINE cr0 == [cr0 |-> cpu.cr0]
             cr4 == [cr4 |-> cpu.cr4]
  <2>1. /\ DOMAIN cr0 = {"cr0"} /\ cr0["cr0"] = cpu["cr0"]
        /\ DOMAIN cr4 = {"cr4"} /\ cr4["cr4"] = cpu["cr4"]
    OBVIOUS
  <2> HIDE DEF cr0, cr4
  <2>2. PInv' /\ Bare!Retire(i, cr0, {})
    BY <1>6, <1>7, <1>10, <2>1
  <2>3. Bare!Retire(i, cr4, {})
    BY <1>6, <1>7, <1>10, <2>1
  <2> QED
    BY <2>2, <2>3 DEF cr0, cr4
<1>11. CASE i.op = "mov_to_cr" /\ ~Changes(i)
  <2>1. i.reg # "cr3" /\ i.src = shadow[i.reg]
    BY <1>11 DEF Changes
  <2>2. i.reg \in {"cr0", "cr4"}
    <3>1. i.reg \in Targets(i.op)
      BY <1>11, PassthroughAssumption DEF Targeted
    <3> QED
      BY <1>11, <2>1, <3>1 DEF Targets, Debug
  <2>3. CASE i.reg = "cr0"
    <3>1. i.src = cpu.cr0
      BY <1>3, <2>1, <2>3
    <3>2. Bare!MovToCr(i)
      BY <1>1, <1>10, <1>11, <2>3, <3>1 DEF Bare!MovToCr
    <3> QED
      BY <1>10, <1>11, <3>2 DEF Bare!Step
  <2>4. CASE i.reg = "cr4"
    <3>1. i.src = cpu.cr4
      BY <1>3, <2>1, <2>4
    <3>2. GuestRegs.cr4 \ i.src = {} /\ i.src \ GuestRegs.cr4 = {}
      BY <1>2, <3>1
    <3>3. Bare!MovToCr(i)
      BY <1>1, <1>10, <1>11, <2>4, <3>1, <3>2 DEF Bare!MovToCr
    <3> QED
      BY <1>10, <1>11, <3>3 DEF Bare!Step
  <2> QED
    BY <2>2, <2>3, <2>4
<1>12. CASE i.op = "clts" /\ ~Changes(i)
  <2>1. GuestRegs.cr0 \ {"ts"} = cpu.cr0
    <3>1. "ts" \notin cpu.cr0
      BY <1>3, <1>12 DEF Changes
    <3> QED
      BY <1>2, <3>1
  <2>2. Bare!Clts(i)
    BY <1>1, <1>10, <1>12, <2>1 DEF Bare!Clts
  <2> QED
    BY <1>10, <1>12, <2>2 DEF Bare!Step
<1>13. CASE i.op = "lmsw" /\ ~Changes(i)
  <2>1. /\ i.src \cap {"mp", "ts"} = cpu.cr0 \cap {"mp", "ts"}
        /\ "pe" \notin i.src \ cpu.cr0
    BY <1>3, <1>13 DEF Changes
  <2>2. (GuestRegs.cr0 \ (Bare!Msw \ Bare!Sticky)) \union (i.src \cap Bare!Msw) = cpu.cr0
    BY <1>2, <2>1 DEF Bare!Msw, Bare!Sticky
  <2>3. Bare!Lmsw(i)
    BY <1>1, <1>10, <1>13, <2>2 DEF Bare!Lmsw
  <2> QED
    BY <1>10, <1>13, <2>3 DEF Bare!Step
<1> QED
  BY <1>1, <1>8, <1>9, <1>11, <1>12, <1>13 DEF Native, Changes

\* SYSCALL and SYSRET.
LEMMA FastSystemDone ==
  ASSUME PInv, NEW i \in Instructions, ExecuteFastSystem(i)
  PROVE  PInv' /\ Bare!Step(i)
<1>1. /\ mode = "guest" /\ Bare!Allowed(i)
      /\ last' = [of |-> i, vector |-> None, rip |-> 0]
      /\ UNCHANGED <<mode, vmcs, shadow, ctx, tlb, inject>>
  BY DEF ExecuteFastSystem, Running
<1>2. \A r \in {"rip", "rcx", "r11", "rflags", "lstar"} : GuestRegs[r] = cpu[r]
  <2>1. {"rip", "rcx", "r11", "rflags", "lstar"} \subseteq File
    BY RegistersAre DEF Context
  <2> QED
    BY <1>1, <2>1, GuestIs DEF SeenOf
<1>3. {"rip", "rcx", "cpl", "r11", "rflags", "rax"} \subseteq
        File \ (Masked \union DebugControls)
  BY RegistersAre DEF Switched, Context, Masked, DebugControls
<1>4. CASE i.op = "syscall"
  <2> DEFINE now == [rip |-> Bare!Address(cpu.lstar), rcx |-> cpu.rip + 1, cpl |-> 0,
                     r11 |-> cpu.rflags, rflags |-> cpu.rflags \ Bare!Fmask, rax |-> i.src]
             new == [rip |-> Bare!Address(cpu.lstar), rcx |-> cpu.rip + 1, cpl |-> 0,
                     r11 |-> cpu.rflags, rflags |-> cpu.rflags \ Bare!Fmask]
  <2>1. cpu' = now \oplus cpu
    BY <1>4 DEF ExecuteFastSystem
  <2>2. /\ DOMAIN now = {"rip", "rcx", "cpl", "r11", "rflags", "rax"}
        /\ DOMAIN new = {"rip", "rcx", "cpl", "r11", "rflags"}
        /\ now["cpl"] = 0 /\ now["rax"] = i.src
        /\ \A r \in DOMAIN new : new[r] = now[r]
    OBVIOUS
  <2> HIDE DEF now, new
  <2>3. \A r \in File : AfterRetire(i, new, r) = IF r \in DOMAIN now THEN now[r] ELSE cpu[r]
    BY <2>2 DEF AfterRetire
  <2>4. /\ DOMAIN now \subseteq File \ (Masked \union DebugControls)
        /\ DOMAIN new \subseteq File \ DebugControls
    BY <1>3, <2>2
  <2>5. PInv' /\ Bare!Retire(i, new, {})
    BY <1>1, <2>1, <2>2, <2>3, <2>4, Ran
  <2>6. Bare!Syscall(i)
    BY <1>2, <1>4, <2>5 DEF Bare!Syscall, new
  <2> QED
    BY <2>5, <2>6 DEF Bare!Step
<1>5. CASE i.op = "sysret"
  <2> DEFINE now == [rip |-> cpu.rcx, cpl |-> 3, rflags |-> cpu.r11 \ {"rf"}, rax |-> i.src]
             new == [rip |-> cpu.rcx, cpl |-> 3, rflags |-> cpu.r11 \ {"rf"}]
  <2>1. cpu' = now \oplus cpu
    BY <1>5 DEF ExecuteFastSystem
  <2>2. /\ DOMAIN now = {"rip", "cpl", "rflags", "rax"}
        /\ DOMAIN new = {"rip", "cpl", "rflags"}
        /\ now["cpl"] = 3 /\ now["rax"] = i.src
        /\ \A r \in DOMAIN new : new[r] = now[r]
    OBVIOUS
  <2> HIDE DEF now, new
  <2>3. \A r \in File : AfterRetire(i, new, r) = IF r \in DOMAIN now THEN now[r] ELSE cpu[r]
    BY <2>2 DEF AfterRetire
  <2>4. /\ DOMAIN now \subseteq File \ (Masked \union DebugControls)
        /\ DOMAIN new \subseteq File \ DebugControls
    BY <1>3, <2>2
  <2>5. PInv' /\ Bare!Retire(i, new, {})
    BY <1>1, <2>1, <2>2, <2>3, <2>4, Ran
  <2>6. Bare!Sysret(i)
    BY <1>1, <1>2, <1>5, <2>5 DEF Bare!Sysret, new
  <2> QED
    BY <2>5, <2>6 DEF Bare!Step
<1> QED
  BY <1>4, <1>5 DEF ExecuteFastSystem

LEMMA FillDone ==
  ASSUME PInv, NEW t \in Translations, Fill(t)
  PROVE  PInv' /\ Bare!Fill(t)
<1>1. mode = "guest" /\ (t.global => "pge" \in cpu.cr4) /\ tlb' = tlb \union {t}
      /\ UNCHANGED <<mode, cpu, vmcs, shadow, ctx, exit, inject, suppress, last, seen>>
  BY DEF Fill, Running
<1>2. GuestRegs["cr4"] = cpu["cr4"]
  <2>1. "cr4" \in File
    BY RegistersAre DEF Masked
  <2> QED
    BY <1>1, <2>1, GuestIs DEF SeenOf
<1>3. PInv'
  BY <1>1 DEF PInv, FilesInv, GuestInv
<1>4. GuestRegs' = GuestRegs /\ GuestLast' = GuestLast
  BY <1>1 DEF GuestRegs, Guest, GuestLast
<1>5. Bare!Fill(t)
  BY <1>1, <1>2, <1>4 DEF Bare!Fill
<1> QED
  BY <1>3, <1>5

---------------------------------------------------------------------------
LEMMA ExitDone ==
  ASSUME PInv, NEW i \in Instructions, NEW reason \in Reasons(i), Exit(i, reason)
  PROVE  /\ PInv'
         /\ UNCHANGED <<GuestRegs, tlb, GuestLast>>
         /\ Gaps = {} /\ GapInv => GapInv'
<1>1. /\ mode = "guest" /\ mode' = "host" /\ exit' = [of |-> i, reason |-> reason]
      /\ seen' = GuestRegs /\ vmcs' = [r \in Switched |-> IF r \in Loaded THEN cpu[r] ELSE vmcs[r]]
      /\ ctx' = [r \in Context |-> IF r = "rax" THEN i.src ELSE cpu[r]]
      /\ cpu' = HostState \oplus cpu /\ suppress' = FALSE
      /\ UNCHANGED <<shadow, tlb, inject, last>>
      /\ Gap(i, reason) \subseteq Gaps
  BY DEF Exit, Running, Unsuppressed
<1>2. /\ IsFile(cpu, File) /\ GuestInv /\ GuestLast = last
      /\ IsFile(GuestRegs, File) /\ \A r \in File : GuestRegs[r] = SeenOf(r)
      /\ (Bare!Allowed(i) <=> Permitted(i, cpu))
  BY <1>1, GuestIs
<1>3. /\ IsFile(seen', File) /\ exit'.of = i /\ exit'.reason = reason
      /\ \A r \in File \ {"dr7"} : seen'[r] = cpu[r]
      /\ seen'["dr7"] = vmcs["dr7"] \cap {"gd"}
  <2>1. "dr7" \in File
    BY RegistersAre DEF DebugControls
  <2> QED
    BY <1>1, <1>2, <2>1 DEF SeenOf
<1>4. DOMAIN HostState = Switched /\ Switched \subseteq File
  BY RegistersAre DEF HostState
<1>5. FilesInv'
  <2>1. IsFile(cpu', File)
    BY <1>1, <1>2, <1>4, OverFile
  <2>2. IsFile(vmcs', Switched) /\ IsFile(ctx', Context)
    BY <1>1 DEF IsFile
  <2>3. \A r \in DebugControls : cpu'[r] = {}
    <3>1. \A r \in DebugControls : (HostState \oplus cpu)[r] = HostState[r]
      BY <1>2, <1>4, OverAt, RegistersAre
    <3>2. \A r \in DebugControls : HostState[r] = {}
      BY RegistersAre DEF HostState, DebugControls
    <3> QED
      BY <1>1, <3>1, <3>2
  <2> QED
    BY <1>1, <2>1, <2>2, <2>3 DEF PInv, FilesInv
<1>6. HostInv'
  <2>1. \A r \in File \ Switched : cpu'[r] = cpu[r]
    <3>1. \A r \in File \ Switched : (HostState \oplus cpu)[r] = cpu[r]
      BY <1>2, <1>4, OverAt
    <3> QED
      BY <1>1, <3>1
  <2>2. /\ \A r \in Loaded : vmcs'[r] = cpu[r] /\ r # "dr7" /\ r \in File
        /\ \A r \in DebugControls : vmcs'[r] = vmcs[r]
    BY <1>1, RegistersAre DEF Loaded, DebugControls
  <2>3. /\ \A r \in Context \ {"rax"} : ctx'[r] = cpu[r]
        /\ ctx'["rax"] = i.src
    BY <1>1 DEF Context
  <2>4. \A r \in Masked : shadow'[r] = cpu[r]
    BY <1>1, <1>2 DEF GuestInv
  <2>5. cpu.cpl \in {0, 3} /\ inject' = None /\ suppress' = FALSE
    BY <1>1, <1>2 DEF GuestInv
  <2>6. \A r \in File \ Switched : seen'[r] = cpu[r]
    BY <1>3, RegistersAre DEF DebugControls
  <2>7. \A r \in Loaded : seen'[r] = cpu[r]
    BY <1>3, <2>2
  <2>8. \A r \in DebugControls : seen'[r] = InEffect(r, vmcs'[r])
    <3>1. cpu["debugctl"] = {} /\ "debugctl" \in File
      BY RegistersAre DEF PInv, FilesInv, DebugControls
    <3> QED
      BY <1>3, <2>2, <3>1 DEF DebugControls, InEffect
  <2>9. \A r \in Context \union Masked \union {"cpl"} : seen'[r] = cpu[r]
    <3>1. "dr7" \notin Context \union Masked \union {"cpl"}
      BY DEF Context, Masked
    <3>2. Context \union Masked \union {"cpl"} \subseteq File
      BY RegistersAre DEF Switched
    <3> QED
      BY <1>3, <3>1, <3>2
  <2>10. \A r \in Context \ {"rax"} : ctx'[r] = seen'[r]
    BY <2>3, <2>9
  <2>11. \A r \in Masked : shadow'[r] = seen'[r]
    BY <2>4, <2>9
  <2>12. seen'["cpl"] \in {0, 3}
    BY <2>5, <2>9
  <2>13. \A r \in File \ Switched : cpu'[r] = seen'[r]
    BY <2>1, <2>6
  <2>14. \A r \in Loaded : vmcs'[r] = seen'[r]
    BY <2>2, <2>7
  <2> QED
    BY <1>3, <2>3, <2>5, <2>8, <2>10, <2>11, <2>12, <2>13, <2>14 DEF HostInv
<1>7. ReasonInv'
  <2>1. /\ reason = "instruction" => i.op \in Debug \/ Permitted(i, cpu)
        /\ reason = "instruction" /\ i.op = "mov_from_cr" => i.reg = "cr3"
        /\ reason = "GP" => ~Permitted(i, cpu)
        /\ reason = "BP" => i.op = "int3"
        /\ reason = "PF" => i.op = "access"
        /\ reason = "UD" => i.op \in Undefined
    BY <1>2 DEF Reasons, Native, Debug
  <2>2. seen'["cpl"] = cpu["cpl"]
    BY <1>3, RegistersAre DEF Switched
  <2> QED
    BY <1>3, <2>1, <2>2 DEF ReasonInv, Permitted
<1>8. UNCHANGED <<GuestRegs, tlb, GuestLast>>
  <2>1. GuestRegs' = seen' /\ GuestLast' = last'
    BY <1>1 DEF GuestRegs, GuestLast
  <2> QED
    BY <1>1, <1>2, <2>1
<1>9. ASSUME Gaps = {}, GapInv
      PROVE  GapInv'
  <2>1. Gap(i, reason) = {}
    BY <1>1, <1>9
  <2>2. shadow["cr4"] = cpu["cr4"]
    BY <1>2 DEF GuestInv, Masked
  <2>3. NoGap(i, reason, cpu)
    BY <2>1, <2>2 DEF Gap, NoGap
  <2>4. \A r \in {"tr_base", "cr4", "cpl"} : seen'[r] = cpu[r]
    BY <1>3, RegistersAre DEF Switched
  <2>5. NoGap(i, reason, seen')
    BY <2>3, <2>4 DEF NoGap
  <2>6. vmcs'["dr7"] = vmcs["dr7"] /\ vmcs'["debugctl"] = vmcs["debugctl"]
    BY <1>1, RegistersAre DEF Loaded, DebugControls
  <2>7. Controls'
    BY <1>9, <2>6 DEF GapInv, Controls
  <2> QED
    BY <1>3, <2>5, <2>7 DEF GapInv, NoGap, Unloaded, Renumber
<1> QED
  BY <1>1, <1>5, <1>6, <1>7, <1>8, <1>9 DEF PInv

LEMMA EnterDone ==
  ASSUME PInv, Enter
  PROVE  PInv' /\ UNCHANGED <<GuestRegs, tlb, GuestLast>>
<1>1. /\ mode = "entry" /\ mode' = "guest" /\ cpu' = Entered /\ last' = Report /\ inject' = None
      /\ UNCHANGED <<vmcs, shadow, ctx, tlb>>
  BY DEF Enter
<1>2. IsFile(cpu, File) /\ IsFile(vmcs, Switched) /\ EntryInv
  BY <1>1 DEF PInv, FilesInv
<1>3. DOMAIN cpu = File
  BY <1>2, FileIs
<1>4. IsFile(cpu', File)
  BY <1>1, <1>3 DEF Entered, IsFile
<1>5. \A r \in Masked : cpu'[r] = vmcs[r]
  <2> TAKE r \in Masked
  <2>1. r \in DOMAIN cpu /\ r \in Loaded /\ r \notin Context /\ r \notin {"rip", "cpl"}
    BY <1>3, RegistersAre DEF Masked
  <2> QED
    BY <1>1, <2>1 DEF Entered
<1>6. cpu'["cpl"] \in {0, 3}
  <2>1. "cpl" \in DOMAIN cpu /\ "cpl" \in Loaded /\ "cpl" \notin Context
    BY <1>3, RegistersAre DEF Switched, Context, Loaded, DebugControls
  <2>2. cpu'["cpl"] = IF inject # None THEN 0 ELSE vmcs["cpl"]
    BY <1>1, <2>1 DEF Entered
  <2> QED
    BY <1>2, <2>2 DEF EntryInv
<1>7. PInv'
  <2>1. FilesInv'
    <3>1. \A r \in DebugControls : r \in DOMAIN cpu /\ r \notin {"rip", "cpl"}
                                  /\ r \notin Context /\ r \notin Loaded /\ cpu[r] = {}
      BY <1>3, RegistersAre DEF PInv, FilesInv, Loaded, Context
    <3>2. \A r \in DebugControls : cpu'[r] = {}
      BY <1>1, <3>1 DEF Entered
    <3> QED
      BY <1>1, <1>4, <3>2 DEF PInv, FilesInv
  <2>2. GuestInv'
    BY <1>1, <1>2, <1>5, <1>6 DEF GuestInv, EntryInv
  <2> QED
    BY <1>1, <2>1, <2>2 DEF PInv
<1>8. GuestRegs = Guest(Entered) /\ GuestLast = Report
  BY <1>1 DEF GuestRegs, GuestLast
<1>9. GuestRegs' = Guest(Entered) /\ GuestLast' = Report
  BY <1>1 DEF GuestRegs, GuestLast, Guest
<1> QED
  BY <1>1, <1>7, <1>8, <1>9

---------------------------------------------------------------------------
\* Every handler preserves the invariant and is a step of Processor.
\* A handler leaves the two fields alone, or writes what they may hold.
LEMMA ControlsOver ==
  ASSUME PInv, Controls, NEW v, vmcs' = v \oplus vmcs, DOMAIN v \subseteq Switched,
         "dr7" \in DOMAIN v => v["dr7"] \subseteq {"gd"},
         "debugctl" \in DOMAIN v => v["debugctl"] = {}
  PROVE  Controls'
<1>1. IsFile(vmcs, Switched) /\ "dr7" \in Switched /\ "debugctl" \in Switched
  BY DEF PInv, FilesInv, Switched
<1>2. /\ (v \oplus vmcs)["dr7"] = IF "dr7" \in DOMAIN v THEN v["dr7"] ELSE vmcs["dr7"]
      /\ (v \oplus vmcs)["debugctl"] =
           IF "debugctl" \in DOMAIN v THEN v["debugctl"] ELSE vmcs["debugctl"]
  BY <1>1, OverAt
<1> QED
  BY <1>2 DEF Controls

LEMMA ControlsWritten ==
  ASSUME PInv, Controls, NEW v, vmcs' = v \oplus vmcs,
         DOMAIN v \subseteq Loaded
  PROVE  Controls'
<1>1. DOMAIN v \subseteq Switched /\ "dr7" \notin DOMAIN v /\ "debugctl" \notin DOMAIN v
  BY RegistersAre DEF Loaded, DebugControls
<1> QED
  BY <1>1, ControlsOver

LEMMA ControlsKept ==
  ASSUME PInv, GapInv, Handle
  PROVE  Controls'
<1>1. Controls /\ DOMAIN Nothing \subseteq Loaded
  BY NothingIs DEF GapInv
<1>2. {"cr0", "cr3", "cr4", "gdtr", "tr", "cpl"} \subseteq Loaded
  BY DEF Loaded, Switched, DebugControls
<1>3. ASSUME vmcs' = Nothing \oplus vmcs
      PROVE  Controls'
  BY <1>1, <1>3, ControlsWritten
<1>4. ASSUME NEW value, \/ vmcs' = [cr0 |-> value] \oplus vmcs
                        \/ vmcs' = [cr3 |-> value] \oplus vmcs
                        \/ vmcs' = [cr4 |-> value] \oplus vmcs
                        \/ vmcs' = [gdtr |-> value] \oplus vmcs
                        \/ vmcs' = [tr |-> value] \oplus vmcs
                        \/ vmcs' = [cpl |-> value] \oplus vmcs
      PROVE  Controls'
  <2>2. /\ DOMAIN [cr0 |-> value] \subseteq Loaded /\ DOMAIN [cr3 |-> value] \subseteq Loaded
        /\ DOMAIN [cr4 |-> value] \subseteq Loaded /\ DOMAIN [gdtr |-> value] \subseteq Loaded
        /\ DOMAIN [tr |-> value] \subseteq Loaded /\ DOMAIN [cpl |-> value] \subseteq Loaded
    BY <1>2
  <2> QED
    BY <1>1, <1>4, <2>2, ControlsWritten
<1>5. CASE HandleMovDr
  <2>1. mode = "host" /\ exit.of.op \in Debug /\ ctx.rax = exit.of.src
    BY <1>5, HostIs DEF HandleMovDr, HostInv
  <2>2. NoGap(exit.of, exit.reason, seen)
    BY <2>1 DEF GapInv
  <2> DEFINE dr == Renumber(exit.of.reg)
  <2>3. \/ vmcs' = Nothing \oplus vmcs
        \/ vmcs' = [dr7 |-> vmcs.dr7 \ {"gd"}] \oplus vmcs
        \/ /\ vmcs' = [dr7 |-> ctx.rax] \oplus vmcs
           /\ exit.of.op # "mov_from_dr" /\ dr = "dr7" /\ "b40" \notin ctx.rax
    BY <1>5 DEF HandleMovDr, Emulate, Complete, Inject
  <2>4. ASSUME NEW value, value \subseteq {"gd"}, vmcs' = [dr7 |-> value] \oplus vmcs
        PROVE  Controls'
    <3> DEFINE v == [dr7 |-> value]
    <3>1. DOMAIN v = {"dr7"} /\ v["dr7"] = value /\ vmcs' = v \oplus vmcs
      BY <2>4
    <3> HIDE DEF v
    <3>2. DOMAIN v \subseteq Switched /\ "debugctl" \notin DOMAIN v
      BY <3>1 DEF Switched
    <3> QED
      BY <1>1, <2>4, <3>1, <3>2, ControlsOver
  <2>5. CASE vmcs' = [dr7 |-> vmcs.dr7 \ {"gd"}] \oplus vmcs
    <3>1. vmcs.dr7 \ {"gd"} \subseteq {"gd"}
      BY <1>1 DEF Controls
    <3> QED
      BY <2>4, <2>5, <3>1
  <2>6. CASE /\ vmcs' = [dr7 |-> ctx.rax] \oplus vmcs
             /\ exit.of.op # "mov_from_dr" /\ dr = "dr7" /\ "b40" \notin ctx.rax
    <3>1. exit.of.op = "mov_to_dr" /\ Unloaded(exit.of) = {}
      BY <2>1, <2>2, <2>6 DEF Debug, NoGap
    <3>2. ctx.rax \subseteq {"gd"}
      BY <2>1, <2>6, <3>1 DEF Unloaded
    <3> QED
      BY <2>4, <2>6, <3>2
  <2> QED
    BY <1>3, <2>3, <2>5, <2>6
<1>6. CASE HandleWrmsr
  <2>1. mode = "host" /\ exit.of.op = "wrmsr" /\ ctx.rax = exit.of.src
    BY <1>6, HostIs DEF HandleWrmsr, InHost, HostInv
  <2>2. NoGap(exit.of, exit.reason, seen)
    BY <2>1 DEF GapInv
  <2> DEFINE v == [r \in {exit.of.reg} |-> ctx.rax]
  <2>3. DOMAIN v = {exit.of.reg} /\ v[exit.of.reg] = ctx.rax
    OBVIOUS
  <2>4. \/ vmcs' = Nothing \oplus vmcs
        \/ vmcs' = v \oplus vmcs /\ exit.of.reg \in InVmcs
    BY <1>6 DEF HandleWrmsr, Emulate, Complete
  <2> HIDE DEF v
  <2>5. CASE vmcs' = v \oplus vmcs /\ exit.of.reg \in InVmcs
    <3>1. DOMAIN v \subseteq Switched /\ "dr7" \notin DOMAIN v
      BY <2>3, <2>5 DEF InVmcs, Switched
    <3>2. "debugctl" \in DOMAIN v => v["debugctl"] = {}
      BY <2>1, <2>2, <2>3 DEF NoGap, Unloaded
    <3> QED
      BY <1>1, <2>5, <3>1, <3>2, ControlsOver
  <2> QED
    BY <1>3, <2>4, <2>5
<1>7. CASE HandleMovToCr0 \/ HandleMovToCr3 \/ HandleMovToCr4
  BY <1>4, <1>7 DEF HandleMovToCr0, HandleMovToCr3, HandleMovToCr4, Emulate, Complete
<1>8. CASE HandleMovFromCr3 \/ HandleClts \/ HandleLmsw
  BY <1>3, <1>4, <1>8 DEF HandleMovFromCr3, HandleClts, HandleLmsw, WriteCr0, Emulate, Complete
<1>9. CASE HandleRdmsr \/ HandleXsetbv \/ HandleCpuid \/ HandleInvd \/ HandleIo
  BY <1>3, <1>9 DEF HandleRdmsr, HandleXsetbv, HandleCpuid, HandleInvd, HandleIo,
     Emulate, Complete
<1>10. CASE HandleGdtrIdtrAccess \/ HandleLdtrTrAccess
  BY <1>3, <1>4, <1>10 DEF HandleGdtrIdtrAccess, HandleLdtrTrAccess, Emulate, Complete
<1>11. CASE HandleInvlpg \/ HandleInvpcid \/ HandleVmFallback
  BY <1>3, <1>11 DEF HandleInvlpg, HandleInvpcid, HandleVmFallback, Emulate, Complete, Inject
<1>12. CASE HandleUnreadable \/ EmulateSyscall \/ EmulateSysret \/ Reinject
  BY <1>3, <1>4, <1>12 DEF HandleUnreadable, EmulateSyscall, EmulateSysret, Reinject,
     Complete, Inject
<1> QED
  BY <1>5, <1>6, <1>7, <1>8, <1>9, <1>10, <1>11, <1>12 DEF Handle

---------------------------------------------------------------------------
LEMMA HandleDone ==
  ASSUME PInv, Handle
  PROVE  PInv' /\ (GapInv => Bare!Step(exit.of) /\ exit.of \in Instructions) /\ mode' = "entry"
<1>1. mode = "host" /\ mode' = "entry"
  BY DEF Handle, InHost, Fetched, Complete, Emulate, Inject, HandleMovToCr0, HandleMovToCr3,
         HandleMovToCr4, HandleMovFromCr3, HandleClts, HandleLmsw, WriteCr0, HandleMovDr,
         HandleRdmsr, HandleWrmsr, HandleXsetbv, HandleCpuid, HandleInvd,
         HandleGdtrIdtrAccess, HandleLdtrTrAccess, HandleIo, HandleInvlpg, HandleInvpcid,
         HandleVmFallback, HandleUnreadable, EmulateSyscall, EmulateSysret, Reinject
<1>2. GapInv => NoGap(exit.of, exit.reason, seen) /\ exit.of \in Instructions
  BY <1>1, HostIs DEF GapInv, ReasonInv
<1>3. PInv' /\ (GapInv => Bare!Step(exit.of))
  BY MovToCr0Done, MovToCr3Done, MovToCr4Done, MovFromCr3Done, ClearTsDone, LoadMswDone,
     MovDrDone, RdmsrDone, WrmsrDone, XsetbvDone, CpuidDone, InvdDone, GdtrIdtrDone,
     LdtrTrDone, IoDone, InvlpgDone, InvpcidDone, VmFallbackDone, UnreadableDone,
     SyscallDone, SysretDone, ReinjectDone, <1>2
  DEF Handle
<1> QED
  BY <1>1, <1>2, <1>3

---------------------------------------------------------------------------
LEMMA InitDone ==
  ASSUME Init
  PROVE  PInv /\ GapInv /\ Bare!Init
<1>1. /\ mode = "guest" /\ cpu = Reset /\ vmcs = [r \in Switched |-> Reset[r]]
      /\ shadow = [r \in Masked |-> Reset[r]] /\ ctx = [r \in Context |-> Reset[r]]
      /\ tlb = {} /\ inject = None /\ last = None
  BY DEF Init
<1>2. FilesInv
  <2>1. \A r \in DebugControls : Reset[r] = {}
    BY PassthroughAssumption
  <2> QED
    BY <1>1, <2>1, RegistersAre DEF FilesInv, IsFile
<1>3. GuestInv
  BY <1>1, PassthroughAssumption DEF GuestInv
<1>4. PInv
  BY <1>1, <1>2, <1>3 DEF PInv
<1>5. GuestRegs = Reset /\ GuestLast = None /\ Controls
  <2>1. /\ IsFile(GuestRegs, File) /\ IsFile(Reset, File) /\ GuestLast = None
        /\ \A r \in File : GuestRegs[r] = SeenOf(r)
    BY <1>1, <1>4, GuestIs, RegistersAre
  <2>2. /\ vmcs["dr7"] = {} /\ vmcs["debugctl"] = {} /\ Reset["dr7"] = {}
    <3>1. Reset["dr7"] = {} /\ Reset["debugctl"] = {}
      BY PassthroughAssumption DEF DebugControls
    <3> QED
      BY <1>1, <3>1 DEF Switched
  <2>3. \A r \in File : GuestRegs[r] = Reset[r]
    BY <1>1, <2>1, <2>2 DEF SeenOf
  <2>4. GuestRegs = Reset
    BY <2>1, <2>3, SameFile
  <2> QED
    BY <2>1, <2>2, <2>4 DEF Controls
<1>6. Bare!Init
  BY <1>1, <1>5 DEF Bare!Init
<1> QED
  BY <1>1, <1>4, <1>5, <1>6 DEF GapInv

LEMMA StepDone ==
  ASSUME PInv, Next
  PROVE  /\ PInv'
         /\ Gaps = {} /\ GapInv => GapInv' /\ [Bare!Next]_(Bare!processorVars)
<1>1. ASSUME NEW i \in Instructions, Execute(i) \/ ExecuteFastSystem(i)
      PROVE  PInv' /\ (GapInv => GapInv') /\ Bare!Next
  <2>1. PInv' /\ Bare!Step(i)
    BY <1>1, ExecuteDone, FastSystemDone
  <2>2. mode' = "guest" /\ vmcs' = vmcs
    BY <1>1 DEF Execute, ExecuteFastSystem, Running
  <2> QED
    BY <2>1, <2>2 DEF GapInv, Controls, Bare!Next
<1>2. ASSUME NEW i \in Instructions, NEW reason \in Reasons(i), Exit(i, reason)
      PROVE  /\ PInv'
             /\ Gaps = {} /\ GapInv => GapInv'
             /\ UNCHANGED Bare!processorVars
  BY <1>2, ExitDone DEF Bare!processorVars
<1>3. ASSUME NEW t \in Translations, Fill(t)
      PROVE  PInv' /\ (GapInv => GapInv') /\ Bare!Next
  <2>1. PInv' /\ Bare!Fill(t)
    BY <1>3, FillDone
  <2>2. mode' = "guest" /\ vmcs' = vmcs
    BY <1>3 DEF Fill, Running
  <2> QED
    BY <2>1, <2>2 DEF GapInv, Controls, Bare!Next
<1>4. ASSUME Handle
      PROVE  PInv' /\ (GapInv => GapInv' /\ Bare!Next)
  <2>1. PInv' /\ mode' = "entry" /\ (GapInv => Bare!Step(exit.of) /\ exit.of \in Instructions)
    BY <1>4, HandleDone
  <2>2. GapInv => Controls'
    BY <1>4, ControlsKept
  <2> QED
    BY <2>1, <2>2 DEF GapInv, Bare!Next
<1>5. ASSUME Enter
      PROVE  PInv' /\ (GapInv => GapInv') /\ UNCHANGED Bare!processorVars
  <2>1. PInv' /\ UNCHANGED <<GuestRegs, tlb, GuestLast>> /\ mode' = "guest" /\ vmcs' = vmcs
    BY <1>5, EnterDone DEF Enter
  <2> QED
    BY <2>1 DEF GapInv, Controls, Bare!processorVars
<1> QED
  BY <1>1, <1>2, <1>3, <1>4, <1>5 DEF Next

LEMMA StutterDone ==
  ASSUME PInv, UNCHANGED vars
  PROVE  PInv' /\ (GapInv => GapInv') /\ UNCHANGED Bare!processorVars
<1>1. PInv' /\ (GapInv => GapInv')
  BY DEF vars, PInv, FilesInv, GuestInv, HostInv, ReasonInv, EntryInv, GapInv, NoGap, Permitted,
     Controls, Unloaded
<1>2. GuestRegs' = GuestRegs /\ GuestLast' = GuestLast /\ tlb' = tlb
  BY DEF vars, GuestRegs, Guest, GuestLast, Entered, EntryRip, Report
<1> QED
  BY <1>1, <1>2 DEF Bare!processorVars

\* Every register has one place at each moment: the processor, the guest-state
\* area, context_ or a shadow, whatever the guest executes.
THEOREM PassthroughInvariance == Spec => []PInv
<1>1. Init => PInv
  BY InitDone
<1>2. PInv /\ [Next]_vars => PInv'
  BY StepDone, StutterDone
<1> QED
  BY <1>1, <1>2, PTL DEF Spec

\* The read shadows of CR0 and CR4 are what the guest runs with, also where the
\* emulation departs from the processor: the handlers write both together.
THEOREM ShadowStaysReal == Spec => []ShadowIsReal
<1>1. PInv => ShadowIsReal
  BY DEF PInv, GuestInv, ShadowIsReal
<1> QED
  BY <1>1, PassthroughInvariance, PTL

\* Away from the gaps, every handler has the effect of the one instruction that
\* caused the VM-exit: what the guest sees is a behaviour of the processor.
THEOREM EmulatesProcessor ==
  ASSUME Gaps = {}
  PROVE  Spec => Emulates
<1>1. Init => Bare!Init /\ GapInv
  BY InitDone
<1>2. PInv /\ GapInv /\ [Next]_vars => GapInv' /\ [Bare!Next]_(Bare!processorVars)
  BY StepDone, StutterDone
<1> QED
  BY <1>1, <1>2, PassthroughInvariance, PTL DEF Spec, Emulates, Bare!Spec
=============================================================================
