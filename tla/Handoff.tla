-------------------------------- MODULE Handoff --------------------------------
(***************************************************************************)
(* projectctl doctor on workstations that share one issue branch through a *)
(* server.  The doctor asks git one question after another, without        *)
(* fetching, and calls the handoff safe or not; background fetches, pushes *)
(* and the other workstation go on between its questions.  A commit is the *)
(* set of changes its history holds, so that a commit is an ancestor of    *)
(* another exactly when it is a subset of it.                              *)
(***************************************************************************)
EXTENDS Integers

CONSTANTS
  Machines,     \* workstations
  Repos,        \* repositories a remote may point at
  Expected,     \* the one of the project
  Forms,        \* ways its URL may be written: "https", "ssh"
  MaxCommits,   \* bound: commits ever made
  MaxSettings,  \* bound: changes of branch, upstream and URLs
  None

Commits == SUBSET (1..MaxCommits)

HandoffAssumption ==
  Expected \in Repos /\ MaxCommits \in Nat /\ MaxSettings \in Nat
NoneAssumption ==
  /\ \A commit \in Commits : None # commit
  /\ None \notin BOOLEAN
  /\ None \notin Repos \cup {"work", "main", "PASS", "WARN", "FAIL"}

VARIABLES
  server,    \* tip of the issue branch in each repository
  work,      \* tip of each machine's own issue branch
  config,    \* branch checked out, upstream, and where origin fetches from and pushes to
  dirty,     \* machines with uncommitted or untracked files
  tracking,  \* refs/remotes/origin/work, None before the first fetch
  fetched,   \* lines of FETCH_HEAD that matter: what the last fetch brought, and from where
  doctor,    \* what the doctor has learned, None when it does not run
  report,    \* its last handoff assessment of the checkout as it stands
  made,      \* commits made
  changes    \* settings changed

git == <<server, work, config, dirty, tracking, fetched, made, changes>>
vars == <<git, doctor, report>>

Branches == {"work", "main", None}
Upstreams == {"work", "main", None}
Urls == Repos \X Forms
Probes == {"branch", "tree", "origin", "upstream", "ref", "fetch", "relation"}

Root == {}
Head(m) == IF config[m].branch = "main" THEN Root ELSE work[m]

Init ==
  /\ server = [r \in Repos |-> Root]
  /\ work = [m \in Machines |-> Root]
  /\ config \in [Machines -> {[branch |-> "work", upstream |-> "work", fetch |-> <<Expected, f>>,
                               push |-> <<Expected, f>>] : f \in Forms}]
  /\ dirty = {}
  /\ tracking = [m \in Machines |-> None]
  /\ fetched = [m \in Machines |-> {}]
  /\ doctor = [m \in Machines |-> None]
  /\ report = [m \in Machines |-> None]
  /\ made = 0 /\ changes = 0

(***************************************************************************)
(* What is done with git.  Work on a checkout voids what the doctor says   *)
(* of it; a fetch or a push does not.                                      *)
(***************************************************************************)
Voided(m) ==
  /\ doctor' = [doctor EXCEPT ![m] = None]
  /\ report' = [report EXCEPT ![m] = None]

\* The doctor's questions are disturbed by a fetch or a push between them.
Disturbed(m) ==
  /\ doctor' = [doctor EXCEPT ![m] = IF @ = None THEN None ELSE [@ EXCEPT !.quiet = FALSE]]
  /\ report' = [report EXCEPT ![m] = IF @ = "PASS" THEN "PASS" ELSE None]

Edit(m) ==
  /\ m \notin dirty
  /\ dirty' = dirty \cup {m}
  /\ Voided(m)
  /\ UNCHANGED <<server, work, config, tracking, fetched, made, changes>>

Commit(m) ==
  /\ m \in dirty /\ config[m].branch = "work" /\ made < MaxCommits
  /\ made' = made + 1
  /\ work' = [work EXCEPT ![m] = @ \cup {made'}]
  /\ dirty' = dirty \ {m}
  /\ Voided(m)
  /\ UNCHANGED <<server, config, tracking, fetched, changes>>

\* Only a fast-forward is accepted.  git moves its tracking ref, not FETCH_HEAD.
Push(m) ==
  LET repo == config[m].push[1] IN
  /\ config[m].branch = "work"
  /\ server[repo] \subseteq work[m] /\ server[repo] # work[m]
  /\ server' = [server EXCEPT ![repo] = work[m]]
  /\ tracking' = [tracking EXCEPT ![m] = work[m]]
  /\ Disturbed(m)
  /\ UNCHANGED <<work, config, dirty, fetched, made, changes>>

\* FETCH_HEAD names every branch fetched, its commit and the URL without the user.
Line(commit, branch, url) == [oid |-> commit, branch |-> branch, url |-> url]

Fetch(m) ==
  LET url == config[m].fetch IN
  /\ tracking' = [tracking EXCEPT ![m] = server[url[1]]]
  /\ fetched' = [fetched EXCEPT ![m] = {Line(server[url[1]], "work", url), Line(Root, "main", url)}]
  /\ <<tracking', fetched'>> # <<tracking, fetched>>
  /\ Disturbed(m)
  /\ UNCHANGED <<server, work, config, dirty, made, changes>>

\* git fetch of one branch by URL: FETCH_HEAD is overwritten, no tracking ref moves.
FetchByUrl(m, url, branch) ==
  /\ changes < MaxSettings
  /\ changes' = changes + 1
  /\ fetched' = [fetched EXCEPT ![m] = {Line(IF branch = "main" THEN Root ELSE server[url[1]], branch, url)}]
  /\ Disturbed(m)
  /\ UNCHANGED <<server, work, config, dirty, tracking, made>>

FastForward(m) ==
  /\ config[m].branch = "work" /\ m \notin dirty /\ tracking[m] # None
  /\ work[m] \subseteq tracking[m] /\ work[m] # tracking[m]
  /\ work' = [work EXCEPT ![m] = tracking[m]]
  /\ Voided(m)
  /\ UNCHANGED <<server, config, dirty, tracking, fetched, made, changes>>

\* Another branch or none, another upstream, another repository for origin.
Configure(m) ==
  /\ changes < MaxSettings
  /\ changes' = changes + 1
  /\ \/ \E b \in Branches \ {config[m].branch} : config' = [config EXCEPT ![m].branch = b]
     \/ \E u \in Upstreams \ {config[m].upstream} : config' = [config EXCEPT ![m].upstream = u]
     \/ \E u \in Urls \ {config[m].fetch} : config' = [config EXCEPT ![m].fetch = u]
     \/ \E u \in Urls \ {config[m].push} : config' = [config EXCEPT ![m].push = u]
  /\ Voided(m)
  /\ UNCHANGED <<server, work, dirty, tracking, fetched, made>>

(***************************************************************************)
(* collect_doctor_report.                                                  *)
(***************************************************************************)
Unknown == [next |-> "branch", quiet |-> TRUE, deaf |-> FALSE, branch |-> None, clean |-> None,
            origin |-> FALSE, upstream |-> None, available |-> None, oid |-> None,
            fresh |-> None, relation |-> "unknown"]

\* Doctors read only their own machine: one at a time stands for all of them.
Start(m) ==
  /\ \A n \in Machines : doctor[n] = None
  /\ doctor' = [doctor EXCEPT ![m] = Unknown]
  /\ report' = [report EXCEPT ![m] = None]
  /\ UNCHANGED git

\* What the doctor finds in `origin`: both URLs name the expected repository.
OriginMatches(m) == config[m].fetch[1] = Expected /\ config[m].push[1] = Expected

\* _repository_identity of a URL that FETCH_HEAD holds: `host:path` without a user has none.
RecordedRepository(url) == IF url[2] = "ssh" THEN None ELSE url[1]

\* _parse_fetch_head: this object, this branch and the expected repository on one line.
FetchHeadProves(m, branch, oid) ==
  \E line \in fetched[m] : /\ line.oid = oid
                           /\ line.branch = branch
                           /\ RecordedRepository(line.url) = Expected

\* _parse_relation of `rev-list --left-right --count HEAD...remote`.
Relation(head, remote) ==
  LET ahead == head \ remote # {}
      behind == remote \ head # {}
  IN IF ahead /\ behind THEN "diverged"
     ELSE IF ahead THEN "ahead" ELSE IF behind THEN "behind" ELSE "synchronized"

\* The ref that is compared: the upstream, or the expected one when there is none.
Compared(d) == IF d.upstream # None THEN d.upstream ELSE d.branch
RefOf(m, name) == IF name = "main" THEN IF tracking[m] = None THEN None ELSE Root ELSE tracking[m]

\* Where the doctor goes after a question, given what it knows by then.
After(d) ==
  CASE d.next = "branch" -> "tree"
    [] d.next = "tree" -> "origin"
    [] d.next = "origin" -> IF d.branch = None THEN "assess" ELSE "upstream"
    [] d.next = "upstream" -> "ref"
    [] d.next = "ref" -> IF d.available = TRUE THEN "fetch" ELSE "assess"
    [] d.next = "fetch" -> IF d.fresh = TRUE THEN "relation" ELSE "assess"
    [] OTHER -> "assess"

\* What a question that is answered adds to what is known.
Answered(m, d) ==
  CASE d.next = "branch" -> [d EXCEPT !.branch = config[m].branch]
    [] d.next = "tree" -> [d EXCEPT !.clean = m \notin dirty]
    [] d.next = "origin" -> [d EXCEPT !.origin = OriginMatches(m)]
    [] d.next = "upstream" -> [d EXCEPT !.upstream = config[m].upstream]
    [] d.next = "ref" -> [d EXCEPT !.oid = RefOf(m, Compared(d)),
                                   !.available = RefOf(m, Compared(d)) # None]
    [] d.next = "fetch" -> [d EXCEPT !.fresh = FetchHeadProves(m, d.branch, d.oid)]
    [] OTHER -> [d EXCEPT !.relation = Relation(Head(m), RefOf(m, Compared(d)))]

Continue(m, d) == doctor' = [doctor EXCEPT ![m] = [d EXCEPT !.next = After(d)]]

Ask(m) ==
  /\ doctor[m] # None /\ doctor[m].next \in Probes
  /\ Continue(m, Answered(m, doctor[m]))
  /\ UNCHANGED <<git, report>>

\* A command that fails or times out leaves its fact unknown; origin then does not match.  Bound:
\* one of a report's commands fails.
Unanswered(m) ==
  /\ doctor[m] # None /\ doctor[m].next \in Probes /\ ~doctor[m].deaf
  /\ Continue(m, [doctor[m] EXCEPT !.deaf = TRUE])
  /\ UNCHANGED <<git, report>>

Blocking(d) ==
  \/ d.branch \in {None, "main"}
  \/ d.clean = FALSE
  \/ ~d.origin
  \/ d.upstream # None /\ d.branch # None /\ d.upstream # d.branch
  \/ d.relation \notin {"unknown", "synchronized"}

Uncertain(d) ==
  \/ d.clean = None
  \/ d.branch = None \/ d.upstream = None
  \/ d.available # TRUE \/ d.fresh # TRUE
  \/ d.relation = "unknown"

evaluate_handoff_state(d) ==
  IF Blocking(d) THEN "FAIL" ELSE IF Uncertain(d) THEN "WARN" ELSE "PASS"

Assess(m) ==
  /\ doctor[m] # None /\ doctor[m].next = "assess"
  /\ report' = [report EXCEPT ![m] = evaluate_handoff_state(doctor[m])]
  /\ doctor' = [doctor EXCEPT ![m] = None]
  /\ UNCHANGED git

Next ==
  \E m \in Machines :
    \/ Edit(m) \/ Commit(m) \/ Push(m) \/ Fetch(m) \/ FastForward(m) \/ Configure(m)
    \/ \E url \in Urls, b \in {"work", "main"} : FetchByUrl(m, url, b)
    \/ Start(m) \/ Ask(m) \/ Unanswered(m) \/ Assess(m)

Spec == Init /\ [][Next]_vars

--------------------------------------------------------------------------------
\* The type invariant.
TypeOK ==
  /\ server \in [Repos -> Commits] /\ work \in [Machines -> Commits]
  /\ config \in [Machines -> [branch : Branches, upstream : Upstreams, fetch : Urls, push : Urls]]
  /\ dirty \subseteq Machines
  /\ tracking \in [Machines -> Commits \cup {None}]
  /\ \A m \in Machines : fetched[m] \subseteq [oid : Commits, branch : {"work", "main"}, url : Urls]
  /\ \A m \in Machines : doctor[m] # None =>
       /\ doctor[m].next \in Probes \cup {"assess"}
       /\ doctor[m].oid \in Commits \cup {None}
       /\ doctor[m].relation \in {"unknown", "synchronized", "ahead", "behind", "diverged"}
  /\ report \in [Machines -> {None, "PASS", "WARN", "FAIL"}]
  /\ made \in 0..MaxCommits /\ changes \in 0..MaxSettings

\* A checkout that the doctor called safe and that was not worked on since has no work of its own:
\* it is on the issue branch, clean, and its commit is in the project's repository, whatever was
\* fetched or pushed, from wherever, before and while the doctor asked its questions.
SafeMeansHandedOver ==
  \A m \in Machines : report[m] = "PASS" =>
    /\ config[m].branch = "work" /\ m \notin dirty
    /\ work[m] \subseteq server[Expected]

\* Two workstations that the doctor calls safe hold one line of history: neither has work that
\* diverged from the other's, so that the older of them needs only to fast-forward.
SafeHeadsAreOneLine ==
  \A m, n \in Machines : report[m] = "PASS" /\ report[n] = "PASS" =>
    work[m] \subseteq work[n] \/ work[n] \subseteq work[m]

\* Facts that give the doctor reason to doubt, as they are when it ends.
Cause(m) ==
  \/ doctor[m].deaf \/ ~doctor[m].quiet
  \/ config[m].branch # "work" \/ config[m].upstream # "work" \/ m \in dirty
  \/ ~OriginMatches(m)
  \/ tracking[m] = None \/ tracking[m] # work[m]
  \/ \A line \in fetched[m] : line.url[1] # Expected \/ line.branch # "work" \/ line.oid # tracking[m]

\* A report that is not safe has a cause: a question went unanswered, something was fetched or
\* pushed meanwhile, or the branch, the upstream, the files, origin, the commits or what the last
\* fetch brought are not what the handoff asks for.
DoubtHasACause ==
  \A m \in Machines : doctor[m] # None /\ report'[m] \in {"WARN", "FAIL"} => Cause(m)
================================================================================
