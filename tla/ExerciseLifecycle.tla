-------------------------- MODULE ExerciseLifecycle --------------------------
(***************************************************************************)
(* An exercise after it was published: the review CLI approves, kills,     *)
(* pulls or fixes a version, two scripts shuffle the choices of traces     *)
(* (in place, or as a new version), a third fills in the fixed code of     *)
(* hand-written bugs and pipeline/ptf_ingest.py derives predict_the_fixes. *)
(* Each is a process of its own which reads rows, decides on what it read, *)
(* and commits later; SQLAlchemy does not refresh a row its session has    *)
(* loaded, so the second SELECT of update_exercise_fields decides on the   *)
(* first one's status, and a column that is set to what was read is not    *)
(* written. What a fix overrides the operator has written before, from     *)
(* what an earlier process showed. Users are served the highest live       *)
(* version.                                                                *)
(***************************************************************************)
EXTENDS Integers, Sequences, FiniteSets, FiniteSetsExt, Functions

CONSTANTS
    Tools,           \* processes of operators
    Ids, MaxVersion, \* exercises and versions, bounded
    Texts, Right,    \* the choices of a trace, and the right one
    Seeded,          \* the permutation random.Random(id) yields, per exercise
    Overrides,       \* what operators write behind --field: some fields of a row
    MaxActs,         \* how many times an operator turns to a tool, bounded
    None

Positions == 1 .. Cardinality(Texts)
Layout == {p \in [Positions -> Texts] : Range(p) = Texts}

(* The notes on the choices: some positions, each with the text its note   *)
(* is about. A key may also be an id that no choice has.                   *)
Notes == UNION {[P -> Texts] : P \in SUBSET Positions}
NoChoice == 0

ASSUME LifecycleAssumption ==
    /\ IsFiniteSet(Texts) /\ Right \in Texts /\ None \notin Texts
    /\ Seeded \in [Ids -> {p \in [Positions -> Positions] : Range(p) = Positions}]
    /\ MaxVersion \in Nat \ {0}

(* Nothing validates an override: each field may come alone, and disagree  *)
(* with the others. It does not invent a parent (source.derived_from).     *)
ASSUME OverridesAssumption ==
    \A o \in Overrides :
        /\ DOMAIN o \subseteq {"choices", "key", "why", "fixedCode", "parent"}
        /\ "choices" \in DOMAIN o => o.choices \in Layout
        /\ "key" \in DOMAIN o => o.key \in Positions \cup {NoChoice}
        /\ "why" \in DOMAIN o => o.why \in Notes
        /\ "fixedCode" \in DOMAIN o => o.fixedCode \in BOOLEAN
        /\ "parent" \in DOMAIN o => o.parent = None

TRACE == "trace"
STB == "spot_the_bug"
PTF == "predict_the_fix"
Statuses == {"in_review", "live", "retired", "pulled"}

VARIABLES
    rows,        \* the exercises table: <<id, version>> -> row, None when absent
    tool,        \* what each tool has read and is about to write, or None
    shown,       \* history: the content users were served, per version, or None
    suspect,     \* history: versions whose fields an operator put together amiss
    acts         \* turns taken so far, for the bound

vars == <<rows, tool, shown, suspect, acts>>

Keys == Ids \X (1 .. MaxVersion)
Present == {k \in Keys : rows[k] # None}
Next_(k) == <<k[1], k[2] + 1>>

(* choices by position; key is the position of the answer; why names, for  *)
(* each position a note is attached to, the text the note is about.        *)
Content(layout) ==
    [choices |-> layout, key |-> CHOOSE p \in Positions : layout[p] = Right,
     why |-> [p \in {q \in Positions : layout[q] # Right} |-> layout[p]]]

NewRow(type, content) ==
    [type |-> type, status |-> "in_review", content |-> content, reviewed |-> FALSE,
     fixedCode |-> TRUE, parent |-> None]

(* What the table may hold; None is not of it. *)
Contents == [choices : Layout, key : Positions \cup {NoChoice}, why : Notes]

Exercise == [type : {TRACE, STB, PTF}, status : Statuses, content : Contents \cup {None},
             reviewed : BOOLEAN, fixedCode : BOOLEAN, parent : Keys \cup {None}]

ASSUME SentinelAssumption == None \notin Exercise

-----------------------------------------------------------------------------
(* reassign_shuffled_choice_ids: the entry at p moves to s[p]; the answer  *)
(* and the notes follow by the map of old to new ids.                      *)
ShuffledNotesStay(c, s) ==                                     \* why_wrong keeps its old ids
    LET inverse == [q \in Positions |-> CHOOSE p \in Positions : s[p] = q] IN
    [choices |-> [q \in Positions |-> c.choices[inverse[q]]], key |-> s[c.key], why |-> c.why]

Shuffled(c, s) ==
    LET inverse == [q \in Positions |-> CHOOSE p \in Positions : s[p] = q] IN
    [choices |-> [q \in Positions |-> c.choices[inverse[q]]],
     key |-> s[c.key],
     why |-> [q \in {s[p] : p \in DOMAIN c.why} |-> c.why[inverse[q]]]]

(* overrides.get(field, old.field). The payload of a trace is its choices, *)
(* its grading the key, its explanation the notes; the fixed code is in    *)
(* the grading of a bug, the parent in the source.                         *)
Field(o, f, old) == IF f \in DOMAIN o THEN o[f] ELSE old

Rewritten(c, o) ==
    [choices |-> Field(o, "choices", c.choices), key |-> Field(o, "key", c.key),
     why |-> Field(o, "why", c.why)]

Overridden(row, o) ==
    [row EXCEPT !.content = IF row.type = TRACE THEN Rewritten(@, o) ELSE @,
                !.fixedCode = IF row.type = STB THEN Field(o, "fixedCode", @) ELSE @,
                !.parent = Field(o, "parent", @)]

(* The key is at the right text, and every other choice has its own note.  *)
RightlyKeyed(c) ==
    /\ c.key \in Positions /\ c.choices[c.key] = Right
    /\ c.why = [p \in Positions \ {c.key} |-> c.choices[p]]

-----------------------------------------------------------------------------
(* What an operator turns to; "read" is the rows the tool has loaded, "saw" *)
(* the row the operator was shown before.                                  *)
Start(t, op, keys) ==
    /\ tool[t] = None /\ acts < MaxActs
    /\ tool' = [tool EXCEPT ![t] = [op |-> op, keys |-> keys, read |-> [k \in keys |-> rows[k]],
                                    saw |-> None]]
    /\ acts' = acts + 1
    /\ UNCHANGED <<rows, shown, suspect>>

(* A command on one version; approve refuses what it read as live. A fix   *)
(* begins with a look at the version (show, or packet).                    *)
Command(t) ==
    \E k \in Present :
        \/ rows[k].status # "live" /\ Start(t, "approve", {k})
        \/ \E op \in {"kill", "pull"} : Start(t, op, {k})
        \/ k[2] < MaxVersion /\ Start(t, "show", {k})

(* fix --field ...: another process, which reads the version again.        *)
Fix(t) ==
    /\ tool[t] # None /\ tool[t].op = "show"
    /\ \E k \in tool[t].keys :
           tool' = [tool EXCEPT ![t] = [op |-> "fix", keys |-> {k}, read |-> [x \in {k} |-> rows[k]],
                                        saw |-> tool[t].read[k]]]
    /\ UNCHANGED <<rows, shown, suspect, acts>>

Traces(statuses) == {k \in Present : rows[k].type = TRACE /\ rows[k].status \in statuses}

(* TextInvariantError: a row whose key is no choice ends the whole run.    *)
Shufflable(keys) == keys # {} /\ \A k \in keys : rows[k].content.key # NoChoice

(* reshuffle_trace_choices --apply, of all traces or of those in one       *)
(* status, and its --bump-live.                                            *)
Reshuffle(t) ==
    \E statuses \in {Statuses} \cup {{s} : s \in Statuses} :
        Shufflable(Traces(statuses)) /\ Start(t, "reshuffle", Traces(statuses))

BumpLive(t) ==
    /\ Shufflable(Traces({"live"})) /\ \A k \in Traces({"live"}) : k[2] < MaxVersion
    /\ Start(t, "bump", Traces({"live"}))

Derived(k) == \E j \in Present : rows[j].parent = k

(* ptf_ingest: a parent that is in review or live, has its fixed code and  *)
(* no predict_the_fix yet.                                                 *)
PtfIngestOfAny(t) ==                                           \* the type not looked at
    \E k \in Present :
        /\ rows[k].status \in {"in_review", "live"} /\ rows[k].fixedCode /\ ~Derived(k)
        /\ Start(t, "derive", {k})

PtfIngest(t) ==
    \E k \in Present :
        /\ rows[k].type = STB /\ rows[k].status \in {"in_review", "live"}
        /\ rows[k].fixedCode /\ ~Derived(k)
        /\ Start(t, "derive", {k})

(* backfill_stb_fixed_code: those that lack their code and are known by    *)
(* their hash to the batch files; one live row among them is refused, and  *)
(* the exception undoes them all.                                          *)
Backfill(t) ==
    \E known \in SUBSET {k \in Present : rows[k].type = STB /\ ~rows[k].fixedCode} :
        /\ known # {} /\ \A k \in known : rows[k].status # "live"
        /\ Start(t, "backfill", known)

-----------------------------------------------------------------------------
(* What a tool has committed when it is done, from what it has read. No    *)
(* UPDATE leaves when the row was read in the status it is to have.        *)
WithStatus(table, k, row, status) ==
    IF row.status = status THEN table ELSE [table EXCEPT ![k].status = status]

Approved(k) == [rows EXCEPT ![k].status = "live", ![k].reviewed = TRUE]

(* version + 1 goes to review, made of the row that was read.              *)
Bumped(table, k, row) ==
    [table EXCEPT ![Next_(k)] = [row EXCEPT !.status = "in_review", !.reviewed = FALSE]]

FixKeepsOld(k, row, o) == Bumped(rows, k, Overridden(row, o))         \* nothing retired

FixedInPlace(k, row, o) ==                           \* the old version edited unless live
    IF row.status = "live" THEN Bumped(rows, k, Overridden(row, o))
    ELSE [rows EXCEPT ![k] = [Overridden(row, o) EXCEPT !.status = "in_review"]]

(* A predecessor read as live is left alone.                               *)
Fixed(k, row, o) ==
    LET table == Bumped(rows, k, Overridden(row, o)) IN
    IF row.status = "live" THEN table ELSE WithStatus(table, k, row, "retired")

(* The operator put the fields together right: what was shown, with the    *)
(* override, is rightly keyed, and it is what the override makes of the    *)
(* row that is there by then.                                              *)
PutTogetherRight(saw, row, o) ==
    row.type = TRACE =>
        /\ RightlyKeyed(Rewritten(saw.content, o))
        /\ Rewritten(row.content, o) = Rewritten(saw.content, o)

Reshuffled(read) ==
    [k \in Keys |->
        IF k \in DOMAIN read /\ read[k].status # "live"
        THEN [rows[k] EXCEPT !.content = Shuffled(read[k].content, Seeded[k[1]])]
        ELSE rows[k]]

BumpedAll(read) ==
    [k \in Keys |->
        LET from == <<k[1], k[2] - 1>> IN
        IF from \in DOMAIN read
        THEN Bumped(rows, from, [read[from] EXCEPT !.content = Shuffled(@, Seeded[k[1]])])[k]
        ELSE rows[k]]

(* The primary key refuses a version that is there; the tool then fails as *)
(* a whole.                                                                *)
Collides(keys) == \E k \in keys : rows[Next_(k)] # None

Write(t) ==
    LET read == tool[t].read
        k == CHOOSE x \in tool[t].keys : TRUE
        op == tool[t].op
    IN
    \/ op = "fix" /\ ~Collides({k}) /\ \E o \in Overrides :
            /\ rows' = Fixed(k, read[k], o)
            /\ suspect' = IF PutTogetherRight(tool[t].saw, read[k], o)
                          THEN suspect ELSE suspect \cup {Next_(k)}
    \/ /\ op = "bump" /\ ~Collides(tool[t].keys) /\ rows' = BumpedAll(read)
       /\ suspect' = suspect \cup {Next_(x) : x \in tool[t].keys \cap suspect}
    \/ /\ \/ op = "approve" /\ rows' = Approved(k)
          \/ op = "kill" /\ rows' = WithStatus(rows, k, read[k], "retired")
          \/ op = "pull" /\ rows' = WithStatus(rows, k, read[k], "pulled")
          \/ op = "reshuffle" /\ rows' = Reshuffled(read)
          \/ op = "backfill" /\ rows' = [x \in Keys |-> IF x \in tool[t].keys
                                                THEN [rows[x] EXCEPT !.fixedCode = TRUE] ELSE rows[x]]
          \/ op = "derive" /\ \E i \in Ids :
                  /\ \A x \in Present : x[1] # i
                  /\ rows' = [rows EXCEPT ![<<i, 1>>] = [NewRow(PTF, None) EXCEPT !.parent = k]]
       /\ UNCHANGED suspect

Commit(t) ==
    /\ tool[t] # None /\ Write(t)
    /\ tool' = [tool EXCEPT ![t] = None]
    /\ UNCHANGED <<shown, acts>>

(* It fails, or is killed, before its commit; or a look was only a look. *)
Abandon(t) ==
    /\ tool[t] # None
    /\ tool' = [tool EXCEPT ![t] = None]
    /\ UNCHANGED <<rows, shown, suspect, acts>>

-----------------------------------------------------------------------------
(* The pipeline publishes; rows from before D-90 have no fixed code.       *)
Insert(i) ==
    /\ \A k \in Present : k[1] # i
    /\ \/ \E layout \in Layout : rows' = [rows EXCEPT ![<<i, 1>>] = NewRow(TRACE, Content(layout))]
       \/ \E has \in BOOLEAN :
            rows' = [rows EXCEPT ![<<i, 1>>] = [NewRow(STB, None) EXCEPT !.fixedCode = has]]
    /\ UNCHANGED <<tool, shown, suspect, acts>>

(* exercises_current: the highest live version of an exercise, or 0. *)
Live(i) == {v \in 1 .. MaxVersion : <<i, v>> \in Present /\ rows[<<i, v>>].status = "live"}
Current(i) == IF Live(i) = {} THEN 0 ELSE Max(Live(i))

Serve(i) ==
    /\ \E k \in {<<i, v>> : v \in Live(i) \cap {Current(i)}} :
           shown[k] = None /\ shown' = [shown EXCEPT ![k] = [content |-> rows[k].content]]
    /\ UNCHANGED <<rows, tool, suspect, acts>>

Init ==
    /\ rows = [k \in Keys |-> None] /\ tool = [t \in Tools |-> None]
    /\ shown = [k \in Keys |-> None] /\ suspect = {} /\ acts = 0

Next ==
    \/ \E t \in Tools : \/ Command(t) \/ Fix(t) \/ Reshuffle(t) \/ BumpLive(t) \/ PtfIngest(t) \/ Backfill(t)
                        \/ Commit(t) \/ Abandon(t)
    \/ \E i \in Ids : Insert(i) \/ Serve(i)

Spec == Init /\ [][Next]_vars

-----------------------------------------------------------------------------
(* Properties. *)

(* Shape of the state; a predict_the_fix comes from a spot_the_bug. *)
TypeOK ==
    /\ \A k \in Present :
        /\ rows[k].type \in {TRACE, STB, PTF} /\ rows[k].status \in Statuses
        /\ rows[k].parent # None => rows[k].parent \in Present /\ rows[rows[k].parent].type = STB
        /\ rows[k].type = TRACE => rows[k].content.choices \in Layout
    /\ \A t \in Tools : tool[t] # None => tool[t].keys \subseteq Present
    /\ suspect \subseteq Present

(* A trace is mis-keyed only by a fix that put its fields together amiss   *)
(* (they disagree with what the operator was shown, or with what a shuffle *)
(* has made of it since), or as a bump of such a version. Whatever else    *)
(* happens (shuffles in place or into a new version, whatever was read     *)
(* before whose commit, a fix of a mis-keyed version) the answer stays     *)
(* with its text and every note with the choice it is about ("the answer   *)
(* key must not move away from its text", reshuffle_trace_choices).        *)
KeyFollowsTheAnswer ==
    \A k \in Present \ suspect : rows[k].type = TRACE => RightlyKeyed(rows[k].content)

(* The shape of the rows, and who is to blame for a wrong key.             *)
WellKeyed == TypeOK /\ KeyFollowsTheAnswer

(* What waits for a reviewer is the newest version of its exercise: nobody *)
(* is asked to approve a version that a fix or a bump has superseded. (A   *)
(* stale approve, or one of a retired version, may still do so.)           *)
ReviewQueueHoldsTheNewest ==
    \A k \in Present : rows[k].status = "in_review" => <<k[1], k[2] + 1>> \notin Present

(* What a trace tells of each of its choices: its text, whether it is the  *)
(* answer, and what the note on it is about.                               *)
Told(c) ==
    {[text |-> c.choices[p], answer |-> p = c.key,
      note |-> IF p \in DOMAIN c.why THEN c.why[p] ELSE None] : p \in Positions}

(* A version that users were served says the same of every choice for ever *)
(* after, mis-keyed or not: it may be pulled and shuffled, by tools that   *)
(* read it before it was live, but what was a right answer never becomes a *)
(* wrong one under the same version (D-58, update_exercise_fields, and     *)
(* fix_and_bump, which never edits the old version).                       *)
ServedSaysTheSame ==
    \A k \in Present : rows[k].type = TRACE /\ shown[k] # None =>
        Told(rows[k].content) = Told(shown[k].content)

(* "What the user saw and how it was graded can never change under a (id,  *)
(* version)": the in-place shuffle also rewrites versions that were live   *)
(* and have been pulled or retired since.                                  *)
SeenContentIsFrozen ==
    \A k \in Present : shown[k] # None => rows[k].content = shown[k].content

(* "The answer key can never drift apart from the shown options"           *)
(* (_shuffle_trace_choices) is true of the shuffles and not of a fix: the  *)
(* fields it overrides are as the operator wrote them, perhaps before a    *)
(* shuffle, and nothing compares them with those it keeps.                 *)
EveryKeyIsRight ==
    \A k \in Present : rows[k].type = TRACE => RightlyKeyed(rows[k].content)

(* "A live predecessor simply stays live and harmless once the new version *)
(* goes live too": it is served again when that version is pulled.         *)
PredecessorIsHarmless ==
    \A i \in Ids : Current(i) # 0 =>
        \A v \in Current(i) + 1 .. MaxVersion : shown[<<i, v>>] = None
=============================================================================
