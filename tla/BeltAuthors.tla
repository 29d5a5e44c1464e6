---------------------------- MODULE BeltAuthors ----------------------------
(***************************************************************************)
(* Whose pull request it is, and whether the belt reviews it at all        *)
(* (.github/scripts/review_loop.py).  A world `w' is what the lookups see: *)
(*   names     the git authors of the listed commits, in order;            *)
(*   author    the git author of the head commit;                          *)
(*   lives     where the head commit can be fetched: "base", "fork";       *)
(*   repo      what the payload says of head.repo: "base", "fork", "gone"  *)
(*             (null) or "omitted";                                        *)
(*   branch    whether a default branch can be named;                      *)
(*   contents  whether the token may read the base's contents: without it  *)
(*             GitHub answers 404, as for a commit that is not there;      *)
(*   broken    the lookups that fail another way: "head", "probe", "fork". *)
(* A lookup returns a name, Nobody, or Raised: an exception.               *)
(***************************************************************************)
EXTENDS Sequences, Integers

CONSTANTS
    SEAT_ACTORS,         \* the built-in map, from git author to seat
    Burn,                \* burn_actor()
    Nobody, Raised

(* A map from git authors to seats.                                        *)
Grants(seats) ==
    \A name \in DOMAIN seats :
        name \notin {Nobody, Raised} /\ seats[name] \notin {Nobody, Raised}

ASSUME AuthorAssumption == Nobody # Raised /\ Grants(SEAT_ACTORS)

Names(w) == {w.names[i] : i \in DOMAIN w.names}

(* An alias is a grant of the repository: a fork's head sees none.         *)
head_is_same_repo(w) == w.repo = "base"

seat_map(w, aliases) ==
    IF head_is_same_repo(w)
      THEN [name \in DOMAIN aliases \cup DOMAIN SEAT_ACTORS |->
              IF name \in DOMAIN aliases THEN aliases[name] ELSE SEAT_ACTORS[name]]
      ELSE SEAT_ACTORS

\* A fault: the first seat that committed, the burn seat or not.
FirstSeat(names, fallback, seats) ==
    LET known == {i \in DOMAIN names : names[i] \in DOMAIN seats}
    IN  IF known = {} THEN fallback
        ELSE names[CHOOSE i \in known : \A j \in known : i <= j]

(* The first seat that is not the burn seat, then the burn seat.           *)
choose_author(names, fallback, seats) ==
    LET known == {i \in DOMAIN names : names[i] \in DOMAIN seats}
        wanted == {i \in known : seats[names[i]] # Burn}
        among == IF wanted # {} THEN wanted ELSE known
    IN  IF known = {} THEN fallback
        ELSE names[CHOOSE i \in among : \A j \in among : i <= j]

-----------------------------------------------------------------------------
(* The head commit's author, from the base and, proven foreign, the fork.  *)

head_is_not_base_repo(w) == w.repo \in {"fork", "gone"}

\* A fault: a 404 on a foreign head is always a commit nobody has.
Granted(w) == "yes"

(* A ref that is there now must be readable, or a 404 shows nothing.       *)
contents_authority_established(w) ==
    IF ~w.branch THEN "no"
    ELSE IF "probe" \in w.broken THEN "raised"
    ELSE IF w.contents THEN "yes" ELSE "no"

live_fork_commit(w) ==
    IF w.repo # "fork" THEN Nobody
    ELSE IF "fork" \in w.broken THEN Raised
    ELSE IF "fork" \in w.lives THEN w.author ELSE Nobody

head_commit_author(w) ==
    IF "head" \in w.broken THEN Raised
    ELSE IF w.contents /\ "base" \in w.lives THEN w.author
    ELSE IF head_is_not_base_repo(w) /\ contents_authority_established(w) = "yes"
      THEN live_fork_commit(w)
    ELSE Raised

-----------------------------------------------------------------------------
(* The seat of a name, Nobody's, or the exception that ended the lookup.   *)
Seat(name, seats) ==
    IF name = Raised THEN Raised
    ELSE IF name \in DOMAIN seats THEN seats[name] ELSE Nobody

(* Aliases are read only where they can change the answer.  A payload that *)
(* is looked up late says what the one at hand would.                      *)
author_for_pr(w, aliases) ==
    LET builtin == choose_author(w.names, Nobody, SEAT_ACTORS)
        seats == seat_map(w, aliases)
        aliased == choose_author(w.names, Nobody, seats)
        head == head_commit_author(w)
        with_head == IF head = Raised THEN Raised
                     ELSE choose_author(Append(w.names, head), head, seats)
    IN  CASE Seat(builtin, SEAT_ACTORS) \notin {Burn, Nobody} -> Seat(builtin, SEAT_ACTORS)
          [] OTHER ->
               IF DOMAIN aliases # {} /\ head_is_same_repo(w)
                 THEN IF Seat(aliased, seats) \notin {Burn, Nobody} THEN Seat(aliased, seats)
                      ELSE IF builtin = Nobody THEN Seat(with_head, seats)
                      ELSE Seat(builtin, SEAT_ACTORS)
               ELSE IF builtin # Nobody THEN Seat(builtin, SEAT_ACTORS)
               ELSE Seat(head, SEAT_ACTORS)

-----------------------------------------------------------------------------
(* Exemption.  A diff `d' has its files, each with the roots of its names  *)
(* (a rename has two), what the capped listing shows of them, how many     *)
(* GitHub says have changed, and whether the pull request closed before    *)
(* the repository declared roots of its own.                               *)

SkillRoots == {"skill"}

loop_exempt_prefixes(declared) == SkillRoots \cup declared

\* A fault: the listing is taken for the diff.
AsListed(d) == d.listed # <<>>

pr_files_are_complete(d) == Len(d.listed) >= d.changed

loop_exempt_pr(d, declared) ==
    LET roots == IF d.closed_before THEN SkillRoots ELSE loop_exempt_prefixes(declared)
    IN  /\ d.listed # <<>>
        /\ \A i \in DOMAIN d.listed : d.listed[i] \subseteq roots
        /\ pr_files_are_complete(d)

-----------------------------------------------------------------------------
(* What the lookups can see of a pull request.                             *)
IsWorld(w) ==
    /\ w.names \in Seq(Names(w)) /\ Names(w) \cap {Nobody, Raised} = {}
    /\ w.author \notin {Nobody, Raised}
    /\ w.lives \subseteq {"base", "fork"} /\ w.repo \in {"base", "fork", "gone", "omitted"}
    /\ w.branch \in BOOLEAN /\ w.contents \in BOOLEAN

(* What GitHub lists of a diff is the first of its files.                  *)
IsDiff(d) ==
    /\ d.files \in Seq({d.files[i] : i \in DOMAIN d.files}) /\ d.changed = Len(d.files)
    /\ \E n \in 0 .. Len(d.files) : d.listed = SubSeq(d.files, 1, n)

(* A pull request is nobody's only when somebody looked: its head commit   *)
(* is nowhere, on a base that can be read, or is no seat's.  A lost grant, *)
(* an omitted payload or a broken lookup raises.                           *)
SeatIsNotDropped(w, aliases) ==
    author_for_pr(w, aliases) = Nobody =>
        /\ Names(w) \cap DOMAIN seat_map(w, aliases) = {}
        /\ w.contents
        /\ (w.lives \cap {"base", w.repo} # {}) => w.author \notin DOMAIN seat_map(w, aliases)

(* No file of an exempt pull request lies outside the roots in force.      *)
ExemptionIsProven(d, declared) ==
    loop_exempt_pr(d, declared) =>
        \A i \in DOMAIN d.files :
            d.files[i] \subseteq SkillRoots \cup (IF d.closed_before THEN {} ELSE declared)

(* A burn commit does not steal the wake of a seat that committed, built   *)
(* in or aliased, and no alias reaches a head outside the repository.      *)
WakeIsTheAuthors(w, aliases) ==
    LET seats == seat_map(w, aliases)
    IN  /\ (\E name \in Names(w) \cap DOMAIN seats : seats[name] # Burn) =>
              author_for_pr(w, aliases) \notin {Burn, Nobody, Raised}
        /\ ~head_is_same_repo(w) => author_for_pr(w, aliases) = author_for_pr(w, <<>>)
=============================================================================
