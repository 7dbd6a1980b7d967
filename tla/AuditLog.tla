------------------------------ MODULE AuditLog ------------------------------
(***************************************************************************)
(* The audit log: Record inserts a row and then writes a line to an NDJSON *)
(* file that is rotated when it is full.  The rotation opens the new file  *)
(* under a temporary name, shifts the older ones, renames the current one  *)
(* aside and the new one in, and only then writes to it; each step may     *)
(* fail and the process may die between any two.                           *)
(*                                                                         *)
(* Name 0 is the current file, i the one rotated away i times.  A file is  *)
(* an inode, which the writer keeps open when its name changes; its        *)
(* content is the events written to it, each the length of one line.       *)
(***************************************************************************)
EXTENDS Integers, Sequences, FiniteSets, SequencesExt

CONSTANTS Clients, None,
          MaxLines,    \* maxBytes, in lines
          MaxEvents    \* bound on events

VARIABLES keep,        \* rotated files kept
          arows,       \* events in audit_log
          arec,        \* calls of Record
          wmu,         \* the writer's mutex
          names,       \* the inode of each name, 0 for none
          content,     \* of each inode
          f,           \* the inode the writer has open
          currentSz,
          rotating,    \* the inode of the temporary name, and the step of a shift
          written,     \* ghost: the lines written, in their order
          events,
          afault       \* what went wrong
wvars == <<keep, arows, arec, wmu, names, content, f, currentSz, rotating, written, events, afault>>

KeepMax == 2
Names == 0 .. KeepMax
Fresh == Len(content) + 1
NoRecord == [pc |-> "idle", e |-> 0]
NoRotation == [new |-> 0, i |-> 0]

WTypeOK ==
    /\ keep \in Names
    /\ arows \subseteq 1 .. MaxEvents /\ events \in 0 .. MaxEvents
    /\ arec \in [Clients -> [pc : {"idle", "line", "open", "shift", "aside", "in", "write"},
                             e : 0 .. MaxEvents]]
    /\ wmu \in Clients \cup {None}
    /\ names \in [Names -> 0 .. Len(content)] /\ f \in 1 .. Len(content)
    /\ currentSz \in 0 .. MaxLines /\ afault \subseteq {"shift", "cut"}

WInit ==
    /\ keep \in {0, KeepMax}
    /\ arows = {} /\ events = 0
    /\ arec = [c \in Clients |-> NoRecord] /\ wmu = None
    /\ names = [n \in Names |-> IF n = 0 THEN 1 ELSE 0]
    /\ content = <<<<>>>> /\ f = 1 /\ currentSz = 0
    /\ rotating = NoRotation /\ written = <<>> /\ afault = {}

-----------------------------------------------------------------------------
Files == <<names, content, f, currentSz, rotating, written>>
At(c, pc) == arec[c].pc = pc
Then(c, pc) == arec' = [arec EXCEPT ![c] = [@ EXCEPT !.pc = pc]]
Over(c) == arec' = [arec EXCEPT ![c] = NoRecord] /\ wmu' = None

(* A row that cannot be inserted fails the call, and no line is written.   *)
Record(c) ==
    /\ arec[c] = NoRecord /\ events < MaxEvents
    /\ events' = events + 1
    /\ \/ /\ arows' = arows \cup {events + 1}
          /\ arec' = [arec EXCEPT ![c] = [pc |-> "line", e |-> events + 1]]
       \/ UNCHANGED <<arows, arec>>
    /\ UNCHANGED <<keep, wmu, Files, afault>>

WriteJSON(c) ==
    /\ At(c, "line") /\ wmu = None
    /\ wmu' = c
    /\ Then(c, IF currentSz > 0 /\ currentSz + 1 > MaxLines THEN "open" ELSE "write")
    /\ UNCHANGED <<keep, arows, events, Files, afault>>

(* The line; a write that fails is logged.                                 *)
Write(c) ==
    /\ At(c, "write")
    /\ \/ /\ content' = [content EXCEPT ![f] = Append(@, arec[c].e)]
          /\ written' = Append(written, arec[c].e)
          /\ currentSz' = currentSz + 1
       \/ UNCHANGED <<content, written, currentSz>>
    /\ Over(c)
    /\ UNCHANGED <<keep, arows, events, names, f, rotating, afault>>

-----------------------------------------------------------------------------
\* Mutant: the older files are not shifted.
OpenOnly(c) ==
    /\ At(c, "open")
    /\ content' = Append(content, <<>>)
    /\ rotating' = [new |-> Fresh, i |-> keep - 1]
    /\ Then(c, "aside")
    /\ UNCHANGED <<keep, arows, wmu, events, names, f, currentSz, written, afault>>

(* The temporary file, and the oldest one away; without the first, the     *)
(* line is not written.                                                    *)
OpenTmp(c) ==
    /\ At(c, "open")
    /\ \/ /\ content' = Append(content, <<>>)
          /\ rotating' = [new |-> Fresh, i |-> keep - 1]
          /\ names' = IF keep > 0 THEN [names EXCEPT ![keep] = 0] ELSE names
          /\ Then(c, "shift") /\ UNCHANGED wmu
       \/ Over(c) /\ UNCHANGED <<content, rotating, names>>
    /\ UNCHANGED <<keep, arows, events, f, currentSz, written, afault>>

(* Failed renames of older files are ignored.                              *)
Shift(c) ==
    /\ At(c, "shift")
    /\ IF rotating.i >= 1
       THEN /\ rotating' = [rotating EXCEPT !.i = @ - 1]
            /\ LET i == rotating.i IN
               \/ /\ names' = IF names[i] = 0 THEN names
                              ELSE [names EXCEPT ![i + 1] = names[i], ![i] = 0]
                  /\ UNCHANGED afault
               \/ names' = names /\ afault' = afault \cup {"shift"}
            /\ UNCHANGED arec
       ELSE Then(c, "aside") /\ UNCHANGED <<names, rotating, afault>>
    /\ UNCHANGED <<keep, arows, wmu, events, content, f, currentSz, written>>

RotateFails(c) == Over(c) /\ rotating' = NoRotation /\ afault' = afault \cup {"cut"}

(* The current file becomes the first rotated one, or goes.                *)
Aside(c) ==
    /\ At(c, "aside")
    /\ \/ /\ names' = IF keep = 0 THEN [names EXCEPT ![0] = 0]
                      ELSE IF names[0] = 0 THEN names
                      ELSE [names EXCEPT ![1] = names[0], ![0] = 0]
          /\ Then(c, "in") /\ UNCHANGED <<wmu, rotating, afault>>
       \/ keep > 0 /\ RotateFails(c) /\ UNCHANGED names
    /\ UNCHANGED <<keep, arows, events, content, f, currentSz, written>>

(* The new file gets its name and is the one written to; otherwise the     *)
(* current one is renamed back, if that works.                             *)
In(c) ==
    /\ At(c, "in")
    /\ \/ /\ names' = [names EXCEPT ![0] = rotating.new]
          /\ f' = rotating.new /\ currentSz' = 0
          /\ rotating' = NoRotation /\ Then(c, "write") /\ UNCHANGED <<wmu, afault>>
       \/ /\ RotateFails(c)
          /\ \/ keep > 0 /\ names[1] # 0 /\ names' = [names EXCEPT ![0] = names[1], ![1] = 0]
             \/ UNCHANGED names
          /\ UNCHANGED <<f, currentSz>>
    /\ UNCHANGED <<keep, arows, events, content, written>>

(* The process dies and NewWriter opens the current file, or creates it.   *)
NewWriter ==
    /\ afault' = IF \E c \in Clients : arec[c].pc \in {"shift", "aside", "in"}
                 THEN afault \cup {"cut"} ELSE afault
    /\ arec' = [c \in Clients |-> NoRecord] /\ wmu' = None /\ rotating' = NoRotation
    /\ IF names[0] = 0
       THEN /\ content' = Append(content, <<>>)
            /\ names' = [names EXCEPT ![0] = Fresh]
            /\ f' = Fresh /\ currentSz' = 0
       ELSE f' = names[0] /\ currentSz' = Len(content[names[0]]) /\ UNCHANGED <<content, names>>
    /\ UNCHANGED <<keep, arows, events, written>>

WNext ==
    \/ \E c \in Clients :
         \/ Record(c) \/ WriteJSON(c) \/ Write(c)
         \/ OpenTmp(c) \/ Shift(c) \/ Aside(c) \/ In(c)
    \/ NewWriter

-----------------------------------------------------------------------------
Lines(n) == IF names[n] = 0 THEN <<>> ELSE content[names[n]]
Trail == Lines(2) \o Lines(1) \o Lines(0)

(* Read from the oldest file to the current one, the log is the last lines *)
(* written, in their order and without a gap, through rotations that fail  *)
(* or are cut short at any step, unless an older file could not be renamed;*)
(* without a failure it holds at least as many lines as the kept files     *)
(* have room for.  No file outgrows its limit, and every line has its row  *)
(* (ndjson.go:100, audit.go:117).                                          *)
AuditTrailKept ==
    /\ \A i \in 1 .. Len(content) : Len(content[i]) <= MaxLines
    /\ ToSet(written) \subseteq arows
    /\ keep > 0 /\ "shift" \notin afault => IsSuffix(Trail, written)
    /\ keep > 0 /\ afault = {} => Len(Trail) >= keep * MaxLines \/ Trail = written
=============================================================================
