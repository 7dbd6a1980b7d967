---------------------------- MODULE Publication ----------------------------
(***************************************************************************)
(* What a Debian, PyPI or Helm repository serves of its index, and the     *)
(* regeneration that makes it.  A Debian suite is built in a directory of  *)
(* its own and swapped in by two renames; PyPI replaces a top page and one *)
(* page per project, each as HTML and as JSON; Helm replaces index.yaml.   *)
(* (RPM's repodata and the timers of the coalescer are in RegenCoalescer;  *)
(* hash-named copies of a page are never served and are left out.)         *)
(*                                                                         *)
(* A page is a suite, a project or the chart directory; its parts are the  *)
(* component and architecture of a suite, the files of a project, the      *)
(* charts.  A listing gives each part the number of the write it comes     *)
(* from, 0 for none.                                                       *)
(***************************************************************************)
EXTENDS Integers, FiniteSets, FiniteSetsExt

CONSTANTS Writers, Pages, Parts, MaxWrites

Forms == {"deb", "pypi", "helm"}
Listing == [Parts -> 0 .. MaxWrites]
Absent == [t \in Parts |-> -1]
Empty == [t \in Parts |-> 0]
Files == {"Packages", "Release", "InRelease", "Release.gpg", "html", "json", "index"}
NoFiles == [f \in Files |-> Absent]

VARIABLES form,
          src,       \* what a regeneration reads: rows, or for Helm the charts on disk
          declared,  \* the suites of apt_suites
          state,     \* repos.metadata_state
          kick,      \* kicks the coalescer holds
          writer,
          loop,      \* where the regeneration is: its step, its page, what is left of its page
          todo,      \* pages it has still to write
          snap,      \* the listing of its page, as far as it is read
          tmp,       \* the suite it builds, and the suite it has moved away
          pub,       \* the files served for each page
          top,       \* PyPI's top page: the projects listed, as HTML and as JSON
          listed,    \* pages of the last regeneration that started to write
          born,      \* suites that have been published
          missing,   \* suites lost between the two renames
          writes,
          past       \* what went wrong since the last regeneration began
vars == <<form, src, declared, state, kick, writer, loop, todo, snap, tmp, pub, top, listed,
          born, missing, writes, past>>

NoWrite == [pc |-> "idle", pg |-> 0, t |-> 0, old |-> 0]
Resting == [pc |-> "idle", pg |-> 0, parts |-> {}, file |-> "none"]
NoDirs == [new |-> NoFiles, old |-> NoFiles]

PTypeOK ==
    /\ form \in Forms
    /\ src \in [Pages -> Listing] /\ declared \subseteq Pages
    /\ state \in {"clean", "dirty", "regenerating"} /\ kick \in 0 .. 1
    /\ writer \in [Writers -> [pc : {"idle", "file", "move", "kick"}, pg : Pages \cup {0},
                               t : Parts \cup {0}, old : 0 .. MaxWrites]]
    /\ loop.pc \in {"idle", "list", "top", "read", "write", "away", "in"}
    /\ todo \subseteq Pages /\ listed \subseteq Pages /\ born \subseteq Pages
    /\ missing \subseteq Pages
    /\ DOMAIN pub = Pages /\ DOMAIN top = {"html", "json"}
    /\ writes \in 0 .. MaxWrites /\ past \subseteq {"fault", "restart"}

(* A repository just created: nothing published, and for Debian the suites *)
(* it was created with.                                                    *)
PInit ==
    /\ form \in Forms
    /\ src = [pg \in Pages |-> Empty]
    /\ declared = IF form = "deb" THEN {Min(Pages)} ELSE {}
    /\ state = "clean" /\ kick = 0
    /\ writer = [w \in Writers |-> NoWrite]
    /\ loop = Resting /\ todo = {} /\ snap = Empty /\ tmp = NoDirs
    /\ pub = [pg \in Pages |-> NoFiles]
    /\ top = [f \in {"html", "json"} |-> {}]
    /\ listed = {} /\ born = {} /\ missing = {} /\ writes = 0 /\ past = {}

published == <<pub, top, listed, born, missing>>
regen == <<loop, todo, snap, tmp>>

-----------------------------------------------------------------------------
(* Uploads and deletes.  Row and dirty mark are one transaction; for Debian *)
(* and PyPI nothing else matters here.  Only declared suites take uploads. *)

Goto(w, pc) == writer' = [writer EXCEPT ![w] = [@ EXCEPT !.pc = pc]]
Source(pg, t, n) == src' = [src EXCEPT ![pg] = [@ EXCEPT ![t] = n]]

Put(w, pg, t) ==
    /\ writer[w] = NoWrite /\ writes < MaxWrites
    /\ form # "helm" /\ (form = "deb" => pg \in declared)
    /\ writes' = writes + 1
    /\ Source(pg, t, writes + 1)
    /\ state' = "dirty"
    /\ writer' = [writer EXCEPT ![w] = [NoWrite EXCEPT !.pc = "kick"]]
    /\ UNCHANGED <<form, declared, kick, regen, published, past>>

Delete(w, pg, t) ==
    /\ writer[w] = NoWrite /\ src[pg][t] # 0
    /\ form # "helm"
    /\ Source(pg, t, 0)
    /\ state' = "dirty"
    /\ writer' = [writer EXCEPT ![w] = [NoWrite EXCEPT !.pc = "kick"]]
    /\ UNCHANGED <<form, declared, kick, regen, published, writes, past>>

(* A chart is put in place before its transaction, under the lock of its   *)
(* path; a failed transaction takes it back, and no kick follows.          *)
PutChart(w, t) ==
    LET pg == Min(Pages) IN
    /\ form = "helm" /\ writer[w] = NoWrite /\ writes < MaxWrites
    /\ \A o \in Writers : writer[o].pc = "file" => writer[o].t # t
    /\ writes' = writes + 1
    /\ Source(pg, t, writes + 1)
    /\ writer' = [writer EXCEPT ![w] = [pc |-> "file", pg |-> pg, t |-> t, old |-> src[pg][t]]]
    /\ UNCHANGED <<form, declared, state, kick, regen, published, past>>

CommitChart(w) ==
    /\ writer[w].pc = "file"
    /\ \/ state' = "dirty" /\ Goto(w, "kick") /\ UNCHANGED <<src, past>>
       \/ /\ Source(writer[w].pg, writer[w].t, writer[w].old)
          /\ writer' = [writer EXCEPT ![w] = NoWrite]
          /\ past' = past \cup {"fault"}
          /\ UNCHANGED state
    /\ UNCHANGED <<form, declared, kick, regen, published, writes>>

(* The row of a chart goes first, its file after the transaction; without  *)
(* the file moved, the request ends in an error and kicks nobody.          *)
DeleteChart(w, t) ==
    LET pg == Min(Pages) IN
    /\ form = "helm" /\ writer[w] = NoWrite /\ src[pg][t] # 0
    /\ state' = "dirty"
    /\ writer' = [writer EXCEPT ![w] = [NoWrite EXCEPT !.pc = "move", !.pg = pg, !.t = t]]
    /\ UNCHANGED <<form, src, declared, kick, regen, published, writes, past>>

MoveChart(w) ==
    /\ writer[w].pc = "move"
    /\ \/ Source(writer[w].pg, writer[w].t, 0) /\ Goto(w, "kick")
          /\ UNCHANGED past
       \/ writer' = [writer EXCEPT ![w] = NoWrite] /\ past' = past \cup {"fault"}
          /\ UNCHANGED src
    /\ UNCHANGED <<form, declared, state, kick, regen, published, writes>>

\* Mutant: a kick during a regeneration is dropped.
KickWhenIdle(w) ==
    /\ writer[w].pc = "kick"
    /\ kick' = IF loop = Resting THEN 1 ELSE kick
    /\ writer' = [writer EXCEPT ![w] = NoWrite]
    /\ UNCHANGED <<form, src, declared, state, regen, published, writes, past>>

Kick(w) ==
    /\ writer[w].pc = "kick"
    /\ kick' = 1
    /\ writer' = [writer EXCEPT ![w] = NoWrite]
    /\ UNCHANGED <<form, src, declared, state, regen, published, writes, past>>

(* Declaring a suite neither marks the repository nor kicks.               *)
patchSuites(pg) ==
    /\ form = "deb" /\ pg \notin declared
    /\ declared' = declared \cup {pg}
    /\ UNCHANGED <<form, src, state, kick, writer, regen, published, writes, past>>

-----------------------------------------------------------------------------
(* The regeneration.                                                       *)

(* The coalescer takes the kick, and the state is marked.                  *)
Start(f) ==
    /\ form = f /\ loop.pc = "idle" /\ kick = 1
    /\ kick' = 0
    /\ state' = "regenerating" /\ past' = {}
    /\ loop' = [Resting EXCEPT !.pc = "list"]
    /\ UNCHANGED <<form, src, declared, writer, todo, snap, tmp, published, writes>>

StartDEB == Start("deb")
StartPyPI == Start("pypi")
StartHelm == Start("helm")

(* The suites, the projects, or the directory.                             *)
ListPages(f, pages, pc, file) ==
    /\ form = f /\ loop.pc = "list"
    /\ todo' = pages /\ listed' = pages
    /\ loop' = [loop EXCEPT !.pc = pc, !.file = file]
    /\ UNCHANGED <<form, src, declared, state, kick, writer, snap, tmp, pub, top, born, missing,
                   writes, past>>

ListSuites == ListPages("deb", declared, "write", "none")
ListProjects == ListPages("pypi", {pg \in Pages : src[pg] # Empty}, "top", "html")
ListCharts == ListPages("helm", {Min(Pages)}, "write", "none")

(* PyPI's top page, HTML and then JSON: the projects of the first query.   *)
WriteTop ==
    /\ loop.pc = "top"
    /\ top' = [top EXCEPT ![loop.file] = listed]
    /\ loop' = IF loop.file = "html" THEN [loop EXCEPT !.file = "json"]
               ELSE [Resting EXCEPT !.pc = "write"]
    /\ UNCHANGED <<form, src, declared, state, kick, writer, todo, snap, tmp, pub, listed, born,
                   missing, writes, past>>

(* The next page, in order; a suite starts from an empty directory.        *)
NextPage ==
    /\ loop.pc = "write" /\ loop.file = "none" /\ todo # {}
    /\ todo' = todo \ {Min(todo)}
    /\ snap' = Empty /\ tmp' = NoDirs
    /\ loop' = [pc |-> "read", pg |-> Min(todo), parts |-> Parts, file |-> "none"]
    /\ UNCHANGED <<form, src, declared, state, kick, writer, published, writes, past>>

FirstFile == IF form = "deb" THEN "Packages" ELSE IF form = "pypi" THEN "html" ELSE "index"

Read(f, now) ==
    LET left == loop.parts \ now IN
    /\ form = f /\ loop.pc = "read" /\ now \subseteq loop.parts
    /\ snap' = [x \in Parts |-> IF x \in now THEN src[loop.pg][x] ELSE snap[x]]
    /\ loop' = IF left # {} THEN [loop EXCEPT !.parts = left]
               ELSE [loop EXCEPT !.pc = "write", !.parts = {}, !.file = FirstFile]
    /\ UNCHANGED <<form, src, declared, state, kick, writer, todo, tmp, published, writes, past>>

(* The packages of one component and architecture; the files of a project, *)
(* in one query; one chart of the directory.                               *)
ReadEntry(t) == Read("deb", {t})
ListByProject == Read("pypi", Parts)
ReadChart(t) == Read("helm", {t})

NextFile(f) ==
    IF f = "Packages" THEN "Release"
    ELSE IF f = "Release" THEN "InRelease"
    ELSE IF f = "InRelease" THEN "Release.gpg" ELSE "json"

Last == loop.file \in {"Release.gpg", "json", "index"}

(* One file into the temporary directory of the suite; Release and the     *)
(* signatures are made from the same Packages.                             *)
WriteSuiteFile ==
    /\ form = "deb" /\ loop.pc = "write" /\ loop.file # "none"
    /\ tmp' = [tmp EXCEPT !.new = [@ EXCEPT ![loop.file] = snap]]
    /\ loop' = IF Last THEN [loop EXCEPT !.pc = "away"]
               ELSE [loop EXCEPT !.file = NextFile(loop.file)]
    /\ UNCHANGED <<form, src, declared, state, kick, writer, todo, snap, published, writes, past>>

(* One file in place of the served one.                                    *)
Replace(f) ==
    /\ form = f /\ loop.pc = "write" /\ loop.file # "none"
    /\ pub' = [pub EXCEPT ![loop.pg] = [@ EXCEPT ![loop.file] = snap]]
    /\ loop' = IF Last THEN [Resting EXCEPT !.pc = "write"]
               ELSE [loop EXCEPT !.file = NextFile(loop.file)]
    /\ UNCHANGED <<form, src, declared, state, kick, writer, todo, snap, tmp, top, listed, born,
                   missing, writes, past>>

writeHashAndPointer == Replace("pypi")
WriteIndex == Replace("helm")

(* The two renames.                                                        *)
MoveAway ==
    /\ loop.pc = "away"
    /\ tmp' = [tmp EXCEPT !.old = pub[loop.pg]]
    /\ pub' = [pub EXCEPT ![loop.pg] = NoFiles]
    /\ loop' = [loop EXCEPT !.pc = "in"]
    /\ UNCHANGED <<form, src, declared, state, kick, writer, todo, snap, top, listed, born,
                   missing, writes, past>>

MoveIn ==
    /\ loop.pc = "in"
    /\ pub' = [pub EXCEPT ![loop.pg] = tmp.new]
    /\ born' = born \cup {loop.pg} /\ missing' = missing \ {loop.pg}
    /\ tmp' = NoDirs
    /\ loop' = [Resting EXCEPT !.pc = "write"]
    /\ UNCHANGED <<form, src, declared, state, kick, writer, todo, snap, top, listed, writes, past>>

Finish(f) ==
    /\ form = f /\ loop = [Resting EXCEPT !.pc = "write"] /\ todo = {}
    /\ state' = "clean"
    /\ loop' = Resting
    /\ UNCHANGED <<form, src, declared, kick, writer, todo, snap, tmp, published, writes, past>>

FinishDEB == Finish("deb")
FinishPyPI == Finish("pypi")
FinishHelm == Finish("helm")

(* A step fails: recordFailure marks the repository dirty, unless that     *)
(* fails too.  Nothing kicks.                                              *)
recordFailure ==
    /\ state' \in {"dirty", state}
    /\ loop' = Resting /\ todo' = {} /\ tmp' = NoDirs
    /\ past' = past \cup {"fault"}
    /\ UNCHANGED <<form, src, declared, kick, writer, snap, top, listed, born, writes>>

Fail(f) ==
    /\ form = f /\ loop.pc \notin {"idle", "in"}
    /\ recordFailure /\ UNCHANGED <<pub, missing>>

FailDEB == Fail("deb")
FailPyPI == Fail("pypi")
FailHelm == Fail("helm")

\* Mutant: a failed second rename leaves the suite away.
NoRollBack ==
    /\ loop.pc = "in"
    /\ recordFailure /\ UNCHANGED <<pub, missing>>

(* A failed second rename puts the old suite back; if that fails too, the  *)
(* suite is gone until a regeneration succeeds.                            *)
RollBack ==
    /\ loop.pc = "in"
    /\ recordFailure
    /\ \/ pub' = [pub EXCEPT ![loop.pg] = tmp.old] /\ UNCHANGED missing
       \/ missing' = missing \cup {loop.pg} /\ UNCHANGED pub

(* The process dies and is started again; nothing looks at metadata_state. *)
Restart ==
    /\ loop # Resting \/ \E w \in Writers : writer[w] # NoWrite
    /\ missing' = IF loop.pc = "in" THEN missing \cup {loop.pg} ELSE missing
    /\ writer' = [w \in Writers |-> NoWrite]
    /\ kick' = 0 /\ loop' = Resting /\ todo' = {} /\ tmp' = NoDirs
    /\ past' = past \cup {"restart"}
    /\ UNCHANGED <<form, src, declared, state, snap, pub, top, listed, born, writes>>

PNext ==
    \/ \E w \in Writers :
        \/ \E pg \in Pages, t \in Parts : Put(w, pg, t) \/ Delete(w, pg, t)
        \/ \E t \in Parts : PutChart(w, t) \/ DeleteChart(w, t)
        \/ CommitChart(w) \/ MoveChart(w) \/ Kick(w)
    \/ \E pg \in Pages : patchSuites(pg)
    \/ StartDEB \/ ListSuites \/ WriteSuiteFile \/ MoveAway \/ MoveIn \/ FinishDEB
    \/ StartPyPI \/ ListProjects \/ WriteTop \/ ListByProject \/ writeHashAndPointer \/ FinishPyPI
    \/ StartHelm \/ ListCharts \/ WriteIndex \/ FinishHelm
    \/ \E t \in Parts : ReadEntry(t) \/ ReadChart(t)
    \/ NextPage \/ FailDEB \/ FailPyPI \/ FailHelm \/ RollBack \/ Restart

-----------------------------------------------------------------------------
(* What the handlers answer; Absent is 404.                                *)
serveDistsFile(s, f) == pub[s][f]

OrEmpty(c) == IF c = Absent THEN Empty ELSE c

(* A chart repository or project without an index answers an empty one.    *)
getIndex == OrEmpty(pub[Min(Pages)]["index"])
getProjectIndex(pg, f) == OrEmpty(pub[pg][f])
getSimpleIndex(f) == top[f]

(* Release, its two signatures and Packages of a suite that is served are  *)
(* of one regeneration, and a suite once published is served, except       *)
(* between the renames of regen.go:340 and 344 or when the process died    *)
(* there or the way back failed as well.                                   *)
SuitesWhole ==
    form = "deb" => \A s \in Pages :
        /\ \A f, g \in {"Packages", "Release", "InRelease", "Release.gpg"} :
               serveDistsFile(s, f) = serveDistsFile(s, g)
        /\ s \in born /\ serveDistsFile(s, "Release") = Absent =>
               s \in missing \/ (loop.pc = "in" /\ loop.pg = s)

Quiet == loop = Resting /\ kick = 0 /\ \A w \in Writers : writer[w] = NoWrite

(* Without a failure since the last regeneration began, a repository where *)
(* nothing is under way is marked clean and serves its packages: every     *)
(* suite it has listed, PyPI's top page and every project on it in both    *)
(* forms, the charts on disk.                                              *)
QuietIsPublished ==
    Quiet /\ past = {} =>
        /\ state = "clean"
        /\ form = "deb" => \A s \in listed : serveDistsFile(s, "Packages") = src[s]
        /\ form = "helm" => getIndex = src[Min(Pages)]
        /\ form = "pypi" =>
              \A f \in {"html", "json"} :
                 /\ getSimpleIndex(f) = {pg \in Pages : src[pg] # Empty}
                 /\ \A pg \in getSimpleIndex(f) : getProjectIndex(pg, f) = src[pg]
=============================================================================
