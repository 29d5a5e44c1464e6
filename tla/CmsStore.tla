------------------------------ MODULE CmsStore ------------------------------
(***************************************************************************)
(* The flat-file store of py/morphe_cms, the four tools over it, and the   *)
(* page loads of the site that read it from another process.               *)
(*                                                                         *)
(* A create writes three files, each by exists-check, temporary file and   *)
(* rename; a publish checks the stored tree, reads publications.json and   *)
(* replaces it.  FastAPI runs the tools in a pool of threads: a writer is  *)
(* one of them, working on one call at a time.  A call may end without an  *)
(* answer after any step (an OSError, or the process is gone), and leaves  *)
(* what it has written behind.                                             *)
(*                                                                         *)
(* The temporary file of a path has one name for all threads.  write_text  *)
(* empties it, then writes: in between another thread may empty it too,    *)
(* write it, or rename it over the path, and the first thread's text then  *)
(* lands in whatever has become of the file it opened.                     *)
(*                                                                         *)
(* validateContentArtifact and renderPreview change nothing: they are the  *)
(* predicates ValidatesOk and HasValidatedRevision.                        *)
(***************************************************************************)
EXTENDS Integers, FiniteSets

CONSTANTS
    Writers,         \* threads that run the tools; the design assumes one
    Slugs,
    Drafts,          \* drafts that pass the request schema
    Grammars,        \* grammar identities, numbered in the order installed
    Passing,         \* [Grammars -> drafts that compile_and_gate lets through]
    LastNamed,       \* highest revision the tools' pattern rev-\d{3} can name
    MaxRevision,     \* bound of the model: revisions of a slug
    MaxFailures,     \* bound of the model: calls cut short in a run
    Nothing,         \* no file, no pointer, no call
    Empty, Torn      \* a file without text, or with the remains of two texts

Revisions == 1 .. MaxRevision
Kinds == {"artifact", "diagnostics", "compiled"}
Paths == Kinds \X Slugs \X Revisions

\* What a file says: the draft it was made of, and the grammar that gated it.
Content == [draft : Drafts, grammar : Grammars, passed : BOOLEAN]

Pointers == [Slugs -> Revisions \cup {Nothing}]

\* Neither parses as JSON.
Unreadable == {Empty, Torn}

ASSUME StoreAssumption ==
    /\ Grammars \subseteq Nat
    /\ Passing \in [Grammars -> SUBSET Drafts]
    /\ MaxRevision \in Nat \ {0}
    /\ MaxFailures \in Nat
    /\ LastNamed \in Nat
    /\ Nothing \notin Revisions \cup Content \cup Pointers \cup Unreadable
    /\ Unreadable \cap (Content \cup Pointers) = {}
    /\ Empty # Torn

VARIABLES
    files,           \* [Paths -> what the file holds, or Nothing]
    temps,           \* the same for the .tmp file beside each path
    publications,    \* publications.json: a pointer of each slug, or Nothing
    draftPointers,   \* publications.json.tmp
    opened,          \* where the file a writing thread holds open is by now
    grammar,         \* the grammar this deployment has installed
    call,            \* [Writers -> the call a thread is working on]
    loading,         \* the <<slug, revision>> a page load has read, or Nothing
    answered,        \* history: what create answered for each revision
    failures         \* calls cut short so far, for the bound

store == <<files, temps, publications, draftPointers, opened>>
history == <<answered, failures>>
vars == <<store, grammar, call, loading, history>>

Steps == {"check", "open", "write", "rename"}
Creates == [task : {"create"}, slug : Slugs, revision : Revisions,
            content : Content, kind : Kinds, step : Steps]
Publishes == [task : {"publish"}, slug : Slugs, revision : Revisions,
              read : Pointers, step : Steps]

-----------------------------------------------------------------------------
Path(kind, s, r) == <<kind, s, r>>
Stored(kind, s, r) == files[Path(kind, s, r)] # Nothing
Readable(kind, s, r) == files[Path(kind, s, r)] \notin {Nothing} \cup Unreadable

\* A fault: only the compiled directory is looked at.
NumberedInCompiled(s) == {r \in Revisions : Stored("compiled", s, r)}

\* next_revision_id globs rev-* in both directories, .tmp files included.
Numbered(s) ==
    {r \in Revisions : \E kind \in Kinds :
        Stored(kind, s, r) \/ temps[Path(kind, s, r)] # Nothing}

NextRevision(s) ==
    IF Numbered(s) = {} THEN 1
    ELSE (CHOOSE r \in Numbered(s) : \A q \in Numbered(s) : q <= r) + 1

\* A fault: the artifact is taken for its compiled tree.
HasArtifact(s, r) == Stored("artifact", s, r)

\* A tree under another grammar identity does not parse as a CompiledTree.
HasValidatedRevision(s, r) ==
    /\ Readable("compiled", s, r)
    /\ files[Path("compiled", s, r)].grammar = grammar

\* validate_content_artifact gates the stored draft again, and stores nothing.
ValidatesOk(s, r) ==
    /\ Readable("artifact", s, r)
    /\ files[Path("artifact", s, r)].draft \in Passing[grammar]

-----------------------------------------------------------------------------
Init ==
    /\ files = [p \in Paths |-> Nothing]
    /\ temps = [p \in Paths |-> Nothing]
    /\ publications = [s \in Slugs |-> Nothing]
    /\ draftPointers = Nothing
    /\ opened = [w \in Writers |-> "temp"]
    /\ grammar \in Grammars
    /\ call = [w \in Writers |-> Nothing]
    /\ loading = Nothing
    /\ answered = [s \in Slugs |-> [r \in Revisions |-> Nothing]]
    /\ failures = 0

Working(w, task) == call[w] # Nothing /\ call[w].task = task

At(w, task, step) == Working(w, task) /\ call[w].step = step

StepTo(w, step) == call' = [call EXCEPT ![w].step = step]

Target(w) == Path(call[w].kind, call[w].slug, call[w].revision)

(* _atomic_write, by threads that share one temporary file.                *)

\* A text written at the start of a file that holds a longer one leaves the
\* rest of that one behind it.
Over(old, text) == IF old = Empty THEN {text} ELSE {text, Torn}

\* What the file a thread has open holds, given its temporary and final name.
InFile(w, temp, final) ==
    CASE opened[w] = "temp" -> temp
      [] opened[w] = "final" -> final
      [] OTHER -> Empty

\* A create's text lands in the file it opened, wherever that is by now.
Land(w, text) ==
    \E t \in Over(InFile(w, temps[Target(w)], files[Target(w)]), text) :
        /\ temps' = IF opened[w] = "temp" THEN [temps EXCEPT ![Target(w)] = t] ELSE temps
        /\ files' = IF opened[w] = "final" THEN [files EXCEPT ![Target(w)] = t] ELSE files
        /\ opened' = [opened EXCEPT ![w] = "temp"]
        /\ UNCHANGED <<publications, draftPointers>>

\* So does a publish's.
LandPointers(w, text) ==
    \E t \in Over(InFile(w, draftPointers, publications), text) :
        /\ draftPointers' = IF opened[w] = "temp" THEN t ELSE draftPointers
        /\ publications' = IF opened[w] = "final" THEN t ELSE publications
        /\ opened' = [opened EXCEPT ![w] = "temp"]
        /\ UNCHANGED <<files, temps>>

\* Two threads at the same file: both publish, or both write the same path.
SameFile(v, w) ==
    /\ call[v].task = call[w].task
    /\ call[w].task = "create" => Target(v) = Target(w)

\* A rename takes the file away under the threads that have it open.
AfterRename(w) ==
    [v \in Writers |->
        IF call[v] # Nothing /\ call[v].step = "write" /\ SameFile(v, w)
        THEN IF opened[v] = "temp" THEN "final" ELSE "gone"
        ELSE opened[v]]

(* create_capability_page.                                                 *)

BeginCreate(w, s, d) ==
    /\ call[w] = Nothing
    /\ NextRevision(s) \in Revisions
    /\ call' = [call EXCEPT ![w] =
         [task |-> "create", slug |-> s, revision |-> NextRevision(s),
          content |-> [draft |-> d, grammar |-> grammar, passed |-> d \in Passing[grammar]],
          kind |-> "artifact", step |-> "check"]]
    /\ UNCHANGED <<store, grammar, loading, history>>

\* Each write_* raises FileExistsError on a path that is there already.
CheckUnwritten(w) ==
    /\ At(w, "create", "check")
    /\ IF files[Target(w)] = Nothing
       THEN StepTo(w, "open")
       ELSE call' = [call EXCEPT ![w] = Nothing]
    /\ UNCHANGED <<store, grammar, loading, history>>

OpenTemp(w) ==
    /\ At(w, "create", "open")
    /\ temps' = [temps EXCEPT ![Target(w)] = Empty]
    /\ StepTo(w, "write")
    /\ UNCHANGED <<files, publications, draftPointers, opened, grammar, loading, history>>

WriteTemp(w) ==
    /\ At(w, "create", "write")
    /\ Land(w, call[w].content)
    /\ StepTo(w, "rename")
    /\ UNCHANGED <<grammar, loading, history>>

\* A fault: the diagnostics are written last.
LastKindFirst(c) ==
    CASE c.kind = "artifact" -> IF c.content.passed THEN {"compiled"} ELSE {"diagnostics"}
      [] c.kind = "compiled" -> {"diagnostics"}
      [] OTHER -> {}

\* A fault: create answers once the diagnostics are written.
NoTree(c) == IF c.kind = "artifact" THEN {"diagnostics"} ELSE {}

\* The file create writes after this one, if any.
KindAfter(c) ==
    CASE c.kind = "artifact" -> {"diagnostics"}
      [] c.kind = "diagnostics" /\ c.content.passed -> {"compiled"}
      [] OTHER -> {}

\* Another thread may have renamed the shared temporary file away.
Rename(w) ==
    /\ At(w, "create", "rename")
    /\ LET c == call[w] IN
         IF temps[Target(w)] = Nothing
         THEN /\ call' = [call EXCEPT ![w] = Nothing]
              /\ UNCHANGED <<files, temps, opened, answered>>
         ELSE /\ files' = [files EXCEPT ![Target(w)] = temps[Target(w)]]
              /\ temps' = [temps EXCEPT ![Target(w)] = Nothing]
              /\ opened' = AfterRename(w)
              /\ \/ \E kind \in KindAfter(c) :
                      /\ call' = [call EXCEPT ![w].kind = kind, ![w].step = "check"]
                      /\ UNCHANGED answered
                 \/ /\ KindAfter(c) = {}
                    /\ call' = [call EXCEPT ![w] = Nothing]
                    /\ answered' = [answered EXCEPT ![c.slug][c.revision] = c.content]
    /\ UNCHANGED <<publications, draftPointers, grammar, loading, failures>>

(* publish_content_artifact.                                               *)

BeginPublish(w, s, r) ==
    /\ call[w] = Nothing
    /\ r <= LastNamed
    /\ HasValidatedRevision(s, r)
    /\ call' = [call EXCEPT ![w] =
         [task |-> "publish", slug |-> s, revision |-> r,
          read |-> [x \in Slugs |-> Nothing], step |-> "check"]]
    /\ UNCHANGED <<store, grammar, loading, history>>

\* A publications.json that does not parse fails the call.
ReadPublications(w) ==
    /\ At(w, "publish", "check")
    /\ call' = [call EXCEPT ![w] =
         IF publications \in Unreadable THEN Nothing
         ELSE [call[w] EXCEPT !.read = publications, !.step = "open"]]
    /\ UNCHANGED <<store, grammar, loading, history>>

\* A fault: the file is written anew for every publication.
OnlyThis(pubs, s, r) == [x \in {s} |-> r]

Moved(pubs, s, r) == [pubs EXCEPT ![s] = r]

OpenPublicationsTemp(w) ==
    /\ At(w, "publish", "open")
    /\ draftPointers' = Empty
    /\ StepTo(w, "write")
    /\ UNCHANGED <<files, temps, publications, opened, grammar, loading, history>>

WritePublicationsTemp(w) ==
    /\ At(w, "publish", "write")
    /\ LandPointers(w, Moved(call[w].read, call[w].slug, call[w].revision))
    /\ StepTo(w, "rename")
    /\ UNCHANGED <<grammar, loading, history>>

RenamePublications(w) ==
    /\ At(w, "publish", "rename")
    /\ IF draftPointers = Nothing
       THEN UNCHANGED <<publications, draftPointers, opened>>
       ELSE /\ publications' = draftPointers
            /\ draftPointers' = Nothing
            /\ opened' = AfterRename(w)
    /\ call' = [call EXCEPT ![w] = Nothing]
    /\ UNCHANGED <<files, temps, grammar, loading, history>>

(* What goes wrong, the page loads, and the next deployment.               *)

\* A call ends without an answer: an OSError, or the process died.  It may
\* have written a part of its text.
Fail(w) ==
    /\ call[w] # Nothing
    /\ failures < MaxFailures
    /\ \/ /\ opened' = [opened EXCEPT ![w] = "temp"]
          /\ UNCHANGED <<files, temps, publications, draftPointers>>
       \/ At(w, "create", "write") /\ Land(w, Torn)
       \/ At(w, "publish", "write") /\ LandPointers(w, Torn)
    /\ call' = [call EXCEPT ![w] = Nothing]
    /\ failures' = failures + 1
    /\ UNCHANGED <<grammar, loading, answered>>

\* routes/p/[slug]: reads publications.json, then awaits the tree.  Loads do
\* not touch each other, so one at a time stands for any number.
BeginLoad(s) ==
    /\ loading = Nothing
    /\ publications \notin Unreadable
    /\ publications[s] # Nothing
    /\ loading' = <<s, publications[s]>>
    /\ UNCHANGED <<store, grammar, call, history>>

EndLoad ==
    /\ loading # Nothing
    /\ loading' = Nothing
    /\ UNCHANGED <<store, grammar, call, history>>

\* A release installs a newer grammar; both processes restart.
Upgrade ==
    /\ \A w \in Writers : call[w] = Nothing
    /\ \E g \in Grammars : g > grammar /\ grammar' = g
    /\ loading' = Nothing
    /\ UNCHANGED <<store, call, history>>

Next ==
    \/ \E w \in Writers :
         \/ \E s \in Slugs, d \in Drafts : BeginCreate(w, s, d)
         \/ CheckUnwritten(w)
         \/ OpenTemp(w)
         \/ WriteTemp(w)
         \/ Rename(w)
         \/ \E s \in Slugs, r \in Revisions : BeginPublish(w, s, r)
         \/ ReadPublications(w)
         \/ OpenPublicationsTemp(w)
         \/ WritePublicationsTemp(w)
         \/ RenamePublications(w)
         \/ Fail(w)
    \/ \E s \in Slugs : BeginLoad(s)
    \/ EndLoad
    \/ Upgrade

Spec == Init /\ [][Next]_vars

-----------------------------------------------------------------------------
(* Properties.                                                             *)

\* Every variable has its type.
TypeOK ==
    /\ files \in [Paths -> Content \cup Unreadable \cup {Nothing}]
    /\ temps \in [Paths -> Content \cup Unreadable \cup {Nothing}]
    /\ publications \in Pointers \cup Unreadable
    /\ draftPointers \in Pointers \cup Unreadable \cup {Nothing}
    /\ opened \in [Writers -> {"temp", "final", "gone"}]
    /\ grammar \in Grammars
    /\ call \in [Writers -> Creates \cup Publishes \cup {Nothing}]
    /\ loading \in (Slugs \X Revisions) \cup {Nothing}
    /\ answered \in [Slugs -> [Revisions -> Content \cup {Nothing}]]
    /\ failures \in Nat

\* The tree's file is there, and if it parses at all the gate let it through.
Gated(s, r) ==
    LET f == files[Path("compiled", s, r)] IN
        /\ f # Nothing
        /\ f \notin Unreadable => f.passed /\ f.draft \in Passing[f.grammar]

\* Publishing fails closed whatever threads share its files: what a readable
\* publications.json points to, and what a page load has read from it, has
\* its tree file, and a page that can be shown is one the gate let through,
\* after a crash at any step, a rollback or a grammar upgrade ("Publish fails
\* closed unless that exact revision has a stored, gate-passing compiled
\* tree", design section 5; p/[slug]'s 404 "Missing compiled tree").  Threads
\* may leave a tree or publications.json that does not parse; with the one
\* writer of the design they cannot (RevisionIsCoherent, ImplementsLog).
PointersResolve ==
    /\ publications \notin Unreadable =>
         \A s \in Slugs : publications[s] # Nothing => Gated(s, publications[s])
    /\ loading # Nothing => Gated(loading[1], loading[2])

\* The three files of a revision agree, in whatever order a crash cut them:
\* none is without text or torn, no tree is without its diagnostics and
\* artifact, all are of one draft, and the frozen status is the verdict the
\* tree was stored on.
RevisionIsCoherent ==
    \A s \in Slugs, r \in Revisions :
        /\ \A kind \in Kinds : Stored(kind, s, r) => Readable(kind, s, r)
        /\ Stored("compiled", s, r) =>
             /\ files[Path("compiled", s, r)] = files[Path("diagnostics", s, r)]
             /\ files[Path("compiled", s, r)].passed
        /\ Stored("diagnostics", s, r) =>
             files[Path("diagnostics", s, r)] = files[Path("artifact", s, r)]

\* An answer stands: the revision create answered with holds that draft and
\* verdict ever after, and its tree exactly if the answer was ok, whatever
\* calls come, fail or are cut short later.
AnsweredStands ==
    \A s \in Slugs, r \in Revisions :
        answered[s][r] # Nothing =>
            /\ files[Path("artifact", s, r)] = answered[s][r]
            /\ Stored("compiled", s, r) <=> answered[s][r].passed

\* With one writer no create is refused over a number already taken, though
\* calls were cut short and failing drafts left gaps among the trees
\* (next_revision_id; test_next_revision_id_is_gap_tolerant).
NumbersAreFresh ==
    \A w \in Writers : Working(w, "create") => files[Target(w)] = Nothing

Log == INSTANCE RevisionLog WITH
    Trees <- [draft : Drafts, grammar : Grammars, passed : {TRUE}],
    tree <- [s \in Slugs |-> [r \in Revisions |-> files[Path("compiled", s, r)]]],
    pointer <- publications

\* To its readers the store is a RevisionLog: trees are written once and
\* never change, and one pointer moves at a time, in a publications.json that
\* always parses.
ImplementsLog == Log!Spec

(* Statements of the design and the tools that the code does not keep.     *)

Creating(s, r) ==
    \E w \in Writers : Working(w, "create") /\ call[w].slug = s /\ call[w].revision = r

\* "a revision is *validated* iff a matching compiled tree exists with ok
\* diagnostics" (design line 136), once its create is over.
ValidatedIffCompiled ==
    \A s \in Slugs, r \in Revisions :
        Stored("artifact", s, r) /\ ~Creating(s, r) =>
            (files[Path("artifact", s, r)].passed <=> Stored("compiled", s, r))

\* "No compiled tree exists for this revision; validate it first."
\* (service.py:109): a revision that validates ok has a preview.
ValidateThenPreview ==
    \A s \in Slugs, r \in Revisions :
        ValidatesOk(s, r) /\ ~Creating(s, r) => HasValidatedRevision(s, r)
=============================================================================
