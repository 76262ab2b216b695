----------------------- MODULE ExerciseLifecycle_proofs -----------------------
(***************************************************************************)
(* Theorems about ExerciseLifecycle, for any number of tools, exercises,   *)
(* versions and choices, and any shuffle.                                  *)
(*   KeysStayRight           Spec => []WellKeyed                           *)
(*   NewestIsReviewed        Spec => []ReviewQueueHoldsTheNewest           *)
(*   ServedStaysTold         Spec => []ServedSaysTheSame                   *)
(* A tool writes what it read some time ago, so the invariant is about     *)
(* what tools hold as much as about the table: what was read still tells   *)
(* of every choice what the row does, and no row has come back to review   *)
(* (TaskSound). Fixes may be put together amiss: a version is rightly      *)
(* keyed unless it is suspect.                                             *)
(***************************************************************************)
EXTENDS ExerciseLifecycle, FiniteSetTheorems, FunctionTheorems, TLAPS

-----------------------------------------------------------------------------
(* Layouts, permutations and what a shuffle makes of a content.            *)
Permutation == {p \in [Positions -> Positions] : Range(p) = Positions}

\* As many positions as choices: no choice is there twice.
LEMMA OntoIsOneToOne ==
    /\ \A l \in Layout : \A p, q \in Positions : l[p] = l[q] => p = q
    /\ \A s \in Permutation : \A p, q \in Positions : s[p] = s[q] => p = q
<1>1. IsFiniteSet(Texts) /\ Cardinality(Texts) \in Nat
  BY LifecycleAssumption, FS_CardinalityType
<1>2. IsFiniteSet(Positions) /\ Cardinality(Positions) = Cardinality(Texts)
  BY <1>1, FS_Interval DEF Positions
<1>3. ASSUME NEW l \in Layout PROVE \A p, q \in Positions : l[p] = l[q] => p = q
  <2>1. l \in Surjection(Positions, Texts)
    BY DEF Layout, Range, Surjection
  <2>2. l \in Injection(Positions, Texts)
    BY <1>2, <2>1, FS_SurjSameCardinalityImpliesInj
  <2>3. QED
    BY <2>2 DEF Injection, IsInjective, Layout
<1>4. ASSUME NEW s \in Permutation PROVE \A p, q \in Positions : s[p] = s[q] => p = q
  <2>1. s \in Surjection(Positions, Positions)
    BY DEF Permutation, Range, Surjection
  <2>2. s \in Injection(Positions, Positions)
    BY <1>2, <2>1, FS_SurjSameCardinalityImpliesInj
  <2>3. QED
    BY <2>2 DEF Injection, IsInjective, Permutation
<1>5. QED
  BY <1>3, <1>4

\* What the pipeline publishes.
LEMMA ContentIsKeyed ==
    ASSUME NEW layout \in Layout
    PROVE  Content(layout) \in Contents /\ RightlyKeyed(Content(layout))
<1> DEFINE key == CHOOSE p \in Positions : layout[p] = Right
           c == Content(layout)
<1>1. layout \in [Positions -> Texts] /\ \E p \in Positions : layout[p] = Right
  BY LifecycleAssumption DEF Layout, Range
<1>2. key \in Positions /\ layout[key] = Right
  BY <1>1
<1>3. {q \in Positions : layout[q] # Right} = Positions \ {key}
  BY <1>2, OntoIsOneToOne
<1>4. c = [choices |-> layout, key |-> key, why |-> [p \in Positions \ {key} |-> layout[p]]]
  BY <1>3 DEF Content
<1> HIDE DEF key
<1>5. [p \in Positions \ {key} |-> layout[p]] \in [Positions \ {key} -> Texts]
  BY <1>1
<1>6. QED
  BY <1>2, <1>4, <1>5 DEF RightlyKeyed, Contents, Notes

\* What a trace tells of the choice at a position.
Says(c, p) == [text |-> c.choices[p], answer |-> p = c.key,
               note |-> IF p \in DOMAIN c.why THEN c.why[p] ELSE None]

LEMMA ToldIsSaid == \A c : Told(c) = {Says(c, p) : p \in Positions}
BY DEF Told, Says

LEMMA ContentTyping ==
    ASSUME NEW c \in Contents
    PROVE  /\ c.choices \in Layout /\ c.choices \in [Positions -> Texts]
           /\ \A x \in Texts : \E p \in Positions : c.choices[p] = x
           /\ c.key \in Positions \cup {NoChoice}
           /\ DOMAIN c.why \subseteq Positions /\ c.why = [p \in DOMAIN c.why |-> c.why[p]]
           /\ \A p \in DOMAIN c.why : c.why[p] \in Texts
<1>1. c.choices \in Layout /\ c.key \in Positions \cup {NoChoice} /\ c.why \in Notes
  BY DEF Contents
<1>2. \A l \in Layout : /\ l \in [Positions -> Texts]
                        /\ \A x \in Texts : \E p \in Positions : l[p] = x
  BY DEF Layout, Range
<1>3. PICK P \in SUBSET Positions : c.why \in [P -> Texts]
  BY <1>1 DEF Notes
<1>4. QED
  BY <1>1, <1>2, <1>3

\* A shuffle moves choices, key and notes, and says the same of every choice.
LEMMA ShuffledSaysTheSame ==
    ASSUME NEW c \in Contents, c.key # NoChoice, NEW s \in Permutation
    PROVE  Shuffled(c, s) \in Contents /\ Told(Shuffled(c, s)) = Told(c)
<1> DEFINE inverse == [q \in Positions |-> CHOOSE p \in Positions : s[p] = q]
           choices == [q \in Positions |-> c.choices[inverse[q]]]
           noted == {s[p] : p \in DOMAIN c.why}
           why == [q \in noted |-> c.why[inverse[q]]]
           d == Shuffled(c, s)
<1>1. \A q \in Positions : inverse[q] \in Positions /\ s[inverse[q]] = q
  BY DEF Permutation, Range
<1>2. \A p \in Positions : s[p] \in Positions /\ inverse[s[p]] = p
  BY <1>1, OntoIsOneToOne DEF Permutation
<1>3. d = [choices |-> choices, key |-> s[c.key], why |-> why]
  BY DEF Shuffled
<1>4. c.choices \in [Positions -> Texts] /\ Range(c.choices) = Texts /\ c.key \in Positions
      /\ DOMAIN c.why \subseteq Positions /\ \A p \in DOMAIN c.why : c.why[p] \in Texts
  BY ContentTyping DEF Layout
<1> HIDE DEF inverse
<1>5. choices \in Layout
  <2>1. choices \in [Positions -> Texts]
    BY <1>1, <1>4
  <2>2. \A x \in Texts : \E q \in Positions : choices[q] = x
    <3> SUFFICES ASSUME NEW x \in Texts PROVE \E q \in Positions : choices[q] = x
      OBVIOUS
    <3>1. PICK p \in Positions : c.choices[p] = x
      BY <1>4 DEF Range
    <3>2. choices[s[p]] = x
      BY <1>2, <3>1
    <3>3. QED
      BY <1>2, <3>2
  <2>3. QED
    BY <2>1, <2>2 DEF Layout, Range
<1>6. noted \subseteq Positions /\ \A p \in Positions : s[p] \in noted <=> p \in DOMAIN c.why
  BY <1>2, <1>4
<1>7. why \in [noted -> Texts]
  BY <1>2, <1>4
<1> HIDE DEF choices, noted
<1>8. d \in Contents
  BY <1>2, <1>3, <1>4, <1>5, <1>6, <1>7 DEF Contents, Notes
<1>9. ASSUME NEW p \in Positions PROVE Says(d, s[p]) = Says(c, p)
  <2>1. d.choices[s[p]] = c.choices[p]
    BY <1>2, <1>3 DEF choices
  <2>2. (s[p] = d.key) <=> (p = c.key)
    BY <1>2, <1>3, <1>4
  <2>3. s[p] \in DOMAIN d.why <=> p \in DOMAIN c.why
    BY <1>3, <1>6
  <2>4. p \in DOMAIN c.why => d.why[s[p]] = c.why[p]
    BY <1>2, <1>3, <1>6
  <2>5. QED
    BY <2>1, <2>2, <2>3, <2>4 DEF Says
<1>10. \A q \in Positions : Says(d, q) = Says(c, inverse[q])
  BY <1>1, <1>9
<1>11. {Says(d, q) : q \in Positions} = {Says(c, p) : p \in Positions}
  BY <1>1, <1>2, <1>9, <1>10
<1>12. QED
  BY <1>8, <1>11, ToldIsSaid

\* Whether a trace is rightly keyed is in what it tells of its choices.
LEMMA RightIsTold ==
    ASSUME NEW c \in Contents, NEW d \in Contents, RightlyKeyed(c), Told(d) = Told(c)
    PROVE  RightlyKeyed(d)
<1>1. ASSUME NEW p \in Positions
      PROVE  /\ Says(c, p).answer <=> Says(c, p).text = Right
             /\ Says(c, p).note = IF Says(c, p).text = Right THEN None ELSE Says(c, p).text
  <2>1. c.choices[p] = Right <=> p = c.key
    BY ContentTyping, OntoIsOneToOne DEF RightlyKeyed
  <2>2. DOMAIN c.why = Positions \ {c.key} /\ \A q \in DOMAIN c.why : c.why[q] = c.choices[q]
    BY DEF RightlyKeyed
  <2>3. QED
    BY <2>1, <2>2 DEF Says
<1>2. ASSUME NEW p \in Positions
      PROVE  /\ p = d.key <=> d.choices[p] = Right
             /\ (IF p \in DOMAIN d.why THEN d.why[p] ELSE None)
                    = IF d.choices[p] = Right THEN None ELSE d.choices[p]
  <2>1. PICK q \in Positions : Says(d, p) = Says(c, q)
    BY ToldIsSaid
  <2>2. /\ Says(d, p).answer <=> Says(d, p).text = Right
        /\ Says(d, p).note = IF Says(d, p).text = Right THEN None ELSE Says(d, p).text
    BY <1>1, <2>1
  <2>3. QED
    BY <2>2 DEF Says
<1>3. d.key \in Positions /\ d.choices[d.key] = Right
  <2>1. PICK p \in Positions : d.choices[p] = Right
    BY ContentTyping, LifecycleAssumption DEF Layout, Range
  <2>2. QED
    BY <1>2, <2>1
<1>4. ASSUME NEW p \in Positions
      PROVE  /\ p \in DOMAIN d.why <=> p # d.key
             /\ p # d.key => d.why[p] = d.choices[p]
  <2>1. None \notin Texts
    BY LifecycleAssumption
  <2>2. d.choices[p] \in Texts /\ (p \in DOMAIN d.why => d.why[p] \in Texts)
    BY ContentTyping
  <2>3. d.choices[p] = Right => p \notin DOMAIN d.why
    BY <1>2, <2>1, <2>2
  <2>4. d.choices[p] # Right => p \in DOMAIN d.why /\ d.why[p] = d.choices[p]
    BY <1>2, <2>1, <2>2
  <2>5. QED
    BY <1>2, <2>3, <2>4
<1>5. DOMAIN d.why = Positions \ {d.key}
  BY <1>4, ContentTyping
<1>6. d.why = [p \in Positions \ {d.key} |-> d.choices[p]]
  BY <1>4, <1>5, ContentTyping
<1>7. QED
  BY <1>3, <1>6 DEF RightlyKeyed

-----------------------------------------------------------------------------
(* The inductive invariant. *)

\* A row, in the table or as a tool has read it.
Sound(r) ==
    /\ r \in Exercise
    /\ r.parent # None => r.parent \in Present /\ rows[r.parent].type = STB
    /\ r.type = TRACE => r.content \in Contents

RowsSound ==
    /\ rows \in [Keys -> Exercise \cup {None}]
    /\ \A k \in Present : Sound(rows[k])
    /\ suspect \subseteq Present /\ KeyFollowsTheAnswer

\* No version without the one before it.
Contiguous == \A k \in Present : k[2] > 1 => <<k[1], k[2] - 1>> \in Present

\* A row out of review does not come back to it, whoever read it there, and it
\* tells of its choices what it told when it was read.
ReadSound(k, r) ==
    /\ Sound(r) /\ r.type = rows[k].type
    /\ r.status # "in_review" => rows[k].status # "in_review"
    /\ r.type = TRACE => Told(r.content) = Told(rows[k].content)

TaskSound(w) ==
    /\ w.keys \subseteq Present /\ w.read \in [w.keys -> Exercise]
    /\ \A k \in w.keys : ReadSound(k, w.read[k])
    /\ w.op \in {"approve", "kill", "pull", "show", "fix", "derive"} =>
           \E k \in Present : w.keys = {k}
    /\ w.op \in {"show", "fix", "bump"} => \A k \in w.keys : k[2] < MaxVersion
    /\ w.op = "fix" => \A k \in w.keys : Sound(w.saw) /\ w.saw.type = rows[k].type
    /\ w.op = "bump" => \A k \in w.keys : w.read[k].status = "live"
    /\ w.op \in {"bump", "reshuffle"} => \A k \in w.keys :
           rows[k].type = TRACE /\ w.read[k].content.key # NoChoice
    /\ w.op = "derive" => \A k \in w.keys : rows[k].type = STB

TasksSound ==
    /\ DOMAIN tool = Tools
    /\ \A t \in Tools : tool[t] # None => TaskSound(tool[t])

TableSound == RowsSound /\ Contiguous /\ ReviewQueueHoldsTheNewest

\* What was served is told still.
ShownSound ==
    /\ DOMAIN shown = Keys
    /\ \A k \in Keys : shown[k] # None =>
           k \in Present /\ (rows[k].type = TRACE => Told(rows[k].content) = Told(shown[k].content))

LifecycleInv == TableSound /\ TasksSound /\ ShownSound

LEMMA InvImplies ==
    LifecycleInv => WellKeyed /\ ReviewQueueHoldsTheNewest /\ ServedSaysTheSame
<1> SUFFICES ASSUME LifecycleInv
             PROVE  WellKeyed /\ ReviewQueueHoldsTheNewest /\ ServedSaysTheSame
  OBVIOUS
<1>1. \A k \in Present : Sound(rows[k])
  BY DEF LifecycleInv, TableSound, RowsSound
<1>2. TypeOK
  BY <1>1 DEF LifecycleInv, TasksSound, TaskSound, TableSound, RowsSound, TypeOK, Sound, Exercise,
     Contents
<1>3. KeyFollowsTheAnswer
  BY DEF LifecycleInv, TableSound, RowsSound
<1>4. ServedSaysTheSame
  BY DEF LifecycleInv, ShownSound, ServedSaysTheSame, Present
<1>5. QED
  BY <1>2, <1>3, <1>4 DEF WellKeyed, LifecycleInv, TableSound

LEMMA InvInitially == Init => LifecycleInv
BY DEF Init, LifecycleInv, TableSound, TasksSound, ShownSound, RowsSound, Contiguous, Present,
       ReviewQueueHoldsTheNewest, KeyFollowsTheAnswer

-----------------------------------------------------------------------------
(* What no step takes away from a row.                                     *)
RowsKept ==
    \A k \in Present :
        /\ k \in Present' /\ rows'[k].type = rows[k].type
        /\ rows[k].status # "in_review" => rows'[k].status # "in_review"
        /\ rows[k].type = TRACE => Told(rows'[k].content) = Told(rows[k].content)

LEMMA SoundStays == ASSUME RowsKept, NEW r, Sound(r) PROVE Sound(r)'
BY DEF RowsKept, Sound

LEMMA ReadStays ==
    ASSUME RowsKept, NEW k \in Present, NEW r, ReadSound(k, r)
    PROVE  ReadSound(k, r)'
BY SoundStays DEF RowsKept, ReadSound

LEMMA TaskStays == ASSUME RowsKept, NEW w, TaskSound(w) PROVE TaskSound(w)'
<1>1. \A k \in w.keys : k \in Present /\ k \in Present' /\ rows'[k].type = rows[k].type
  BY DEF TaskSound, RowsKept
<1>2. ASSUME NEW k \in w.keys PROVE ReadSound(k, w.read[k])'
  <2>1. PICK r : r = w.read[k]
    OBVIOUS
  <2>2. ReadSound(k, r) /\ k \in Present
    BY <1>1, <2>1 DEF TaskSound
  <2>3. ReadSound(k, r)'
    BY <2>2, ReadStays
  <2>4. QED
    BY <2>1, <2>3
<1>3. ASSUME w.op = "fix", NEW k \in w.keys PROVE Sound(w.saw)'
  <2>1. PICK r : r = w.saw
    OBVIOUS
  <2>2. Sound(r)'
    BY <1>3, <2>1, SoundStays DEF TaskSound
  <2>3. QED
    BY <2>1, <2>2
<1>4. QED
  BY <1>1, <1>2, <1>3 DEF TaskSound

LEMMA ShownStays == ASSUME RowsKept, ShownSound, shown' = shown PROVE ShownSound'
BY DEF RowsKept, ShownSound

LEMMA TasksStay ==
    ASSUME TasksSound, RowsKept, DOMAIN tool' = Tools,
           \A t \in Tools : tool'[t] \in {tool[t], None}
    PROVE  TasksSound'
<1> SUFFICES ASSUME NEW t \in Tools, tool'[t] # None PROVE TaskSound(tool[t])'
  BY DEF TasksSound
<1>1. PICK w : w = tool[t]
  OBVIOUS
<1>2. tool'[t] = w /\ TaskSound(w)
  BY <1>1 DEF TasksSound
<1>3. TaskSound(w)'
  BY <1>2, TaskStays
<1>4. QED
  BY <1>2, <1>3

\* The table after a write: the rows there were keep their parents or lose them
\* and do not come back to review; what is new comes after the newest version
\* and is rightly keyed unless it is suspect.
LEMMA TableStays ==
    ASSUME TableSound, RowsKept, rows' \in [Keys -> Exercise \cup {None}],
           suspect \subseteq suspect', suspect' \subseteq Present',
           \A k \in Present' :
               /\ rows'[k].parent # None => /\ rows'[k].parent \in Present
                                            /\ rows[rows'[k].parent].type = STB
               /\ rows'[k].type = TRACE => rows'[k].content \in Contents,
           \A k \in Present : rows'[k].status = "in_review" => rows[k].status = "in_review",
           \A k \in Present' \ Present :
               /\ k[2] > 1 => /\ <<k[1], k[2] - 1>> \in Present
                              /\ rows'[<<k[1], k[2] - 1>>].status # "in_review"
               /\ <<k[1], k[2] + 1>> \notin Present'
               /\ k \notin suspect' /\ rows'[k].type = TRACE => RightlyKeyed(rows'[k].content)
    PROVE  TableSound'
<1>1. KeyFollowsTheAnswer'
  <2> SUFFICES ASSUME NEW k \in Present', k \notin suspect', rows'[k].type = TRACE
               PROVE  RightlyKeyed(rows'[k].content)
    BY DEF KeyFollowsTheAnswer
  <2>1. CASE k \in Present
    <3>1. rows[k].type = TRACE /\ Told(rows'[k].content) = Told(rows[k].content)
      BY <2>1 DEF RowsKept
    <3>2. rows[k].content \in Contents /\ RightlyKeyed(rows[k].content)
      BY <2>1, <3>1 DEF TableSound, RowsSound, Sound, KeyFollowsTheAnswer
    <3>3. PICK c \in Contents, d \in Contents : c = rows[k].content /\ d = rows'[k].content
      BY <3>2
    <3>4. RightlyKeyed(d)
      BY <3>1, <3>2, <3>3, RightIsTold
    <3>5. QED
      BY <3>3, <3>4
  <2>2. QED
    BY <2>1
<1>2. RowsSound'
  <2>1. ASSUME NEW k \in Present' PROVE Sound(rows[k])'
    BY DEF Present, RowsKept, Sound
  <2>2. QED
    BY <1>1, <2>1 DEF RowsSound
<1>3. Contiguous'
  BY DEF TableSound, Contiguous, RowsKept
<1>4. ReviewQueueHoldsTheNewest'
  <2> SUFFICES ASSUME NEW k \in Present', rows'[k].status = "in_review",
                      <<k[1], k[2] + 1>> \in Present'
               PROVE  FALSE
    BY DEF ReviewQueueHoldsTheNewest
  <2> DEFINE n == <<k[1], k[2] + 1>>
  <2>1. k \in Present /\ rows[k].status = "in_review"
    OBVIOUS
  <2>2. n \notin Present
    BY <2>1 DEF TableSound, ReviewQueueHoldsTheNewest
  <2>3. n[1] = k[1] /\ n[2] = k[2] + 1 /\ k[2] \in Nat \ {0} /\ k = <<k[1], k[2]>>
    BY DEF Present, Keys
  <2>4. <<n[1], n[2] - 1>> = k /\ n[2] > 1
    BY <2>3
  <2>5. QED
    BY <2>2, <2>4
<1>5. QED
  BY <1>2, <1>3, <1>4 DEF TableSound

\* Nothing is written.
SameTable == rows' = rows /\ suspect' = suspect

LEMMA SameTableKeeps ==
    ASSUME LifecycleInv, SameTable
    PROVE  Present' = Present /\ RowsKept /\ TableSound'
<1>1. Present' = Present
  BY DEF SameTable, Present
<1>2. RowsKept
  BY <1>1 DEF SameTable, RowsKept
<1>3. TableSound'
  BY <1>1 DEF SameTable, LifecycleInv, TableSound, RowsSound, Contiguous, Sound,
     ReviewQueueHoldsTheNewest, KeyFollowsTheAnswer
<1>4. QED
  BY <1>1, <1>2, <1>3

\* A tool holds another task, of rows it has just read.
LEMMA HoldKeeps ==
    ASSUME LifecycleInv, NEW t \in Tools, NEW w, TaskSound(w),
           SameTable, shown' = shown, tool' = [tool EXCEPT ![t] = w]
    PROVE  LifecycleInv'
<1>1. RowsKept /\ TableSound'
  BY SameTableKeeps
<1>2. ASSUME NEW u \in Tools, tool'[u] # None PROVE TaskSound(tool[u])'
  <2>1. PICK x : x = tool'[u]
    OBVIOUS
  <2>2. TaskSound(x)
    BY <1>2, <2>1 DEF LifecycleInv, TasksSound
  <2>3. TaskSound(x)'
    BY <1>1, <2>2, TaskStays
  <2>4. QED
    BY <2>1, <2>3
<1>3. TasksSound'
  BY <1>2 DEF LifecycleInv, TasksSound
<1>4. ShownSound'
  BY <1>1, ShownStays DEF LifecycleInv
<1>5. QED
  BY <1>1, <1>3, <1>4 DEF LifecycleInv

LEMMA FreshReads ==
    ASSUME LifecycleInv, NEW k \in Present
    PROVE  rows[k] \in Exercise /\ Sound(rows[k]) /\ ReadSound(k, rows[k])
BY DEF LifecycleInv, TableSound, RowsSound, Sound, ReadSound

\* A tool is started on rows it has just read.
LEMMA StartKeeps ==
    ASSUME LifecycleInv, NEW t \in Tools, NEW op, NEW keys \in SUBSET Present,
           Start(t, op, keys), op # "fix",
           op \in {"approve", "kill", "pull", "show", "derive"} => \E k \in Present : keys = {k},
           op \in {"show", "bump"} => \A k \in keys : k[2] < MaxVersion,
           op = "bump" => \A k \in keys : rows[k].status = "live",
           op \in {"bump", "reshuffle"} => \A k \in keys :
               rows[k].type = TRACE /\ rows[k].content.key # NoChoice,
           op = "derive" => \A k \in keys : rows[k].type = STB
    PROVE  LifecycleInv'
<1>1. PICK w : w = [op |-> op, keys |-> keys, read |-> [k \in keys |-> rows[k]], saw |-> None]
  OBVIOUS
<1>2. w.op = op /\ w.keys = keys /\ \A k \in keys : w.read[k] = rows[k]
  BY <1>1
<1>3. w.read \in [keys -> Exercise] /\ \A k \in keys : ReadSound(k, w.read[k])
  BY <1>1, <1>2, FreshReads
<1>4. TaskSound(w)
  BY <1>2, <1>3 DEF TaskSound
<1>5. tool' = [tool EXCEPT ![t] = w] /\ SameTable /\ shown' = shown
  BY <1>1 DEF Start, SameTable
<1>6. QED
  BY <1>4, <1>5, HoldKeeps

\* The fix reads the version again that its operator was shown.
LEMMA FixKeeps == ASSUME LifecycleInv, NEW t \in Tools, Fix(t) PROVE LifecycleInv'
<1>1. PICK v : v = tool[t]
  OBVIOUS
<1>2. TaskSound(v) /\ v.op = "show"
  BY <1>1 DEF Fix, LifecycleInv, TasksSound
<1>3. PICK k \in v.keys :
          tool' = [tool EXCEPT ![t] = [op |-> "fix", keys |-> {k},
                                       read |-> [x \in {k} |-> rows[k]], saw |-> v.read[k]]]
  BY <1>1 DEF Fix
<1>4. PICK w : w = [op |-> "fix", keys |-> {k}, read |-> [x \in {k} |-> rows[k]],
                    saw |-> v.read[k]]
  OBVIOUS
<1>5. k \in Present /\ k[2] < MaxVersion /\ ReadSound(k, v.read[k])
  BY <1>2 DEF TaskSound
<1>6. w.op = "fix" /\ w.keys = {k} /\ w.read[k] = rows[k] /\ w.saw = v.read[k]
  BY <1>4
<1>7. w.read \in [{k} -> Exercise] /\ ReadSound(k, w.read[k])
  BY <1>4, <1>5, <1>6, FreshReads
<1>8. Sound(w.saw) /\ w.saw.type = rows[k].type
  BY <1>5, <1>6 DEF ReadSound
<1>9. TaskSound(w)
  BY <1>5, <1>6, <1>7, <1>8 DEF TaskSound
<1>10. tool' = [tool EXCEPT ![t] = w] /\ SameTable /\ shown' = shown
  BY <1>3, <1>4 DEF Fix, SameTable
<1>11. QED
  BY <1>9, <1>10, HoldKeeps

LEMMA StartsKeep ==
    ASSUME LifecycleInv, NEW t \in Tools,
           Command(t) \/ Reshuffle(t) \/ BumpLive(t) \/ PtfIngest(t) \/ Backfill(t)
    PROVE  LifecycleInv'
<1>1. CASE Command(t)
  BY <1>1, StartKeeps DEF Command
<1>2. CASE Reshuffle(t)
  <2>1. PICK statuses : Shufflable(Traces(statuses)) /\ Start(t, "reshuffle", Traces(statuses))
    BY <1>2 DEF Reshuffle
  <2>2. Traces(statuses) \in SUBSET Present
        /\ \A k \in Traces(statuses) : rows[k].type = TRACE /\ rows[k].content.key # NoChoice
    BY <2>1 DEF Traces, Shufflable
  <2>3. QED
    BY <2>1, <2>2, StartKeeps
<1>3. CASE BumpLive(t)
  BY <1>3, StartKeeps DEF BumpLive, Traces, Shufflable
<1>4. CASE PtfIngest(t)
  BY <1>4, StartKeeps DEF PtfIngest
<1>5. CASE Backfill(t)
  BY <1>5, StartKeeps DEF Backfill
<1>6. QED
  BY <1>1, <1>2, <1>3, <1>4, <1>5

-----------------------------------------------------------------------------
(* What a tool writes.                                                     *)
WritesLawfully ==
    /\ RowsKept /\ rows' \in [Keys -> Exercise \cup {None}]
    /\ suspect \subseteq suspect' /\ suspect' \subseteq Present'
    /\ \A k \in Present' :
           /\ rows'[k].parent # None => /\ rows'[k].parent \in Present
                                        /\ rows[rows'[k].parent].type = STB
           /\ rows'[k].type = TRACE => rows'[k].content \in Contents
    /\ \A k \in Present : rows'[k].status = "in_review" => rows[k].status = "in_review"
    /\ \A k \in Present' \ Present :
           /\ k[2] > 1 => /\ <<k[1], k[2] - 1>> \in Present
                          /\ rows'[<<k[1], k[2] - 1>>].status # "in_review"
           /\ <<k[1], k[2] + 1>> \notin Present'
           /\ k \notin suspect' /\ rows'[k].type = TRACE => RightlyKeyed(rows'[k].content)

\* A row of the table, edited in place: its type and its parent stay, it does
\* not come back to review, and another content tells the same.
EditOf(k, r) ==
    /\ r \in Exercise
    /\ r.type = rows[k].type /\ r.parent = rows[k].parent
    /\ r.status \in {rows[k].status, "live", "retired", "pulled"}
    /\ r.type = TRACE => r.content \in Contents /\ Told(r.content) = Told(rows[k].content)

LEMMA EditsAreLawful ==
    ASSUME LifecycleInv, suspect' = suspect, rows' \in [Keys -> Exercise \cup {None}],
           \A k \in Keys : rows'[k] = rows[k] \/ (k \in Present /\ EditOf(k, rows'[k]))
    PROVE  WritesLawfully
<1>1. /\ suspect \subseteq Present /\ Present \subseteq Keys
      /\ \A k \in Present : Sound(rows[k])
  BY DEF LifecycleInv, TableSound, RowsSound, Present
<1>2. Present' = Present
  BY SentinelAssumption DEF Present, EditOf
<1>3. \A k \in Present : rows'[k] = rows[k] \/ EditOf(k, rows'[k])
  BY <1>1
<1>4. RowsKept
  BY <1>2, <1>3 DEF RowsKept, EditOf
<1>5. \A k \in Present : /\ rows'[k].parent = rows[k].parent /\ rows'[k].type = rows[k].type
                         /\ rows'[k].type = TRACE => rows'[k].content \in Contents
                         /\ rows'[k].status = "in_review" => rows[k].status = "in_review"
  BY <1>1, <1>3 DEF EditOf, Sound
<1>6. QED
  BY <1>1, <1>2, <1>4, <1>5 DEF WritesLawfully, Sound

\* A new version of each row a tool holds: in review, of the row's type and
\* parent if any, rightly keyed or suspect; the version before it is not in
\* review, any more or anyway.
LEMMA NewVersionsAreLawful ==
    ASSUME LifecycleInv, NEW w, TaskSound(w), rows' \in [Keys -> Exercise \cup {None}],
           \A k \in w.keys : k[2] < MaxVersion, ~Collides(w.keys),
           \A k \in w.keys :
               /\ rows'[Next_(k)] \in Exercise
               /\ rows'[Next_(k)].type = w.read[k].type
               /\ rows'[Next_(k)].parent \in {w.read[k].parent, None}
               /\ rows[k].type = TRACE => rows'[Next_(k)].content \in Contents
               /\ Next_(k) \notin suspect' /\ rows[k].type = TRACE =>
                      RightlyKeyed(rows'[Next_(k)].content)
               /\ rows'[k].status # "in_review",
           suspect \subseteq suspect', suspect' \subseteq suspect \cup {Next_(k) : k \in w.keys},
           \A k \in Keys : \/ rows'[k] = rows[k]
                           \/ \E j \in w.keys : k = Next_(j)
                           \/ k \in w.keys /\ EditOf(k, rows'[k])
    PROVE  WritesLawfully
<1>1. /\ \A k \in Present : Sound(rows[k]) /\ rows[k] \in Exercise
      /\ suspect \subseteq Present
  BY DEF LifecycleInv, TableSound, RowsSound, Sound
<1>2. /\ w.keys \subseteq Present
      /\ \A k \in w.keys : Sound(w.read[k]) /\ w.read[k].type = rows[k].type
  BY DEF TaskSound, ReadSound
<1>3. \A k \in w.keys : /\ k = <<k[1], k[2]>> /\ k[1] \in Ids /\ k[2] \in 1 .. MaxVersion
                        /\ Next_(k) = <<k[1], k[2] + 1>> /\ Next_(k) \in Keys
                        /\ Next_(k) \notin Present /\ Next_(k) \in Present'
  <2> SUFFICES ASSUME NEW k \in w.keys
               PROVE  /\ k = <<k[1], k[2]>> /\ k[1] \in Ids /\ k[2] \in 1 .. MaxVersion
                      /\ Next_(k) = <<k[1], k[2] + 1>> /\ Next_(k) \in Keys
                      /\ Next_(k) \notin Present /\ Next_(k) \in Present'
    OBVIOUS
  <2>1. k = <<k[1], k[2]>> /\ k[1] \in Ids /\ k[2] \in 1 .. MaxVersion
    BY <1>2 DEF Present, Keys
  <2>2. k[2] < MaxVersion /\ MaxVersion \in Nat
    BY LifecycleAssumption
  <2>3. Next_(k) = <<k[1], k[2] + 1>> /\ Next_(k) \in Keys
    BY <2>1, <2>2 DEF Next_, Keys
  <2>4. Next_(k) \notin Present
    BY DEF Collides, Present
  <2>5. Next_(k) \in Present'
    BY <2>3, SentinelAssumption DEF Present
  <2>6. QED
    BY <2>1, <2>3, <2>4, <2>5
<1>4. \A k \in Present : rows'[k] = rows[k] \/ EditOf(k, rows'[k])
  BY <1>3 DEF Present
<1>5. \A k \in Present : k \in Present'
  BY <1>4, SentinelAssumption DEF Present, EditOf
<1>6. RowsKept
  BY <1>4, <1>5 DEF RowsKept, EditOf
<1>7. ASSUME NEW k \in Present', k \notin Present
      PROVE  \E j \in w.keys : k = Next_(j)
  BY <1>2, <1>7 DEF Present, EditOf
<1>8. ASSUME NEW k \in Present'
      PROVE  /\ rows'[k].parent # None => /\ rows'[k].parent \in Present
                                          /\ rows[rows'[k].parent].type = STB
             /\ rows'[k].type = TRACE => rows'[k].content \in Contents
  <2>1. CASE k \in Present
    BY <1>1, <1>4, <2>1 DEF Sound, EditOf
  <2>2. CASE k \notin Present
    BY <1>2, <1>7, <2>2 DEF Sound
  <2>3. QED
    BY <2>1, <2>2
<1>9. \A k \in Present : rows'[k].status = "in_review" => rows[k].status = "in_review"
  BY <1>4 DEF EditOf
<1>10. ASSUME NEW k \in Present' \ Present
       PROVE  /\ <<k[1], k[2] - 1>> \in Present
              /\ rows'[<<k[1], k[2] - 1>>].status # "in_review"
              /\ <<k[1], k[2] + 1>> \notin Present'
              /\ k \notin suspect' /\ rows'[k].type = TRACE => RightlyKeyed(rows'[k].content)
  <2>1. PICK j \in w.keys : k = Next_(j)
    BY <1>7
  <2>2. k[1] = j[1] /\ k[2] = j[2] + 1 /\ j[2] \in Nat \ {0} /\ j = <<j[1], j[2]>>
    BY <1>3, <2>1
  <2>3. <<k[1], k[2] - 1>> = j
    BY <2>2
  <2>4. <<k[1], k[2] + 1>> \notin Present
    <3> DEFINE n == <<k[1], k[2] + 1>>
    <3>1. n[2] > 1 /\ <<n[1], n[2] - 1>> = k
      BY <1>3, <2>1, <2>2
    <3>2. QED
      BY <3>1 DEF LifecycleInv, TableSound, Contiguous
  <2>5. <<k[1], k[2] + 1>> \notin Present'
    <3>1. SUFFICES ASSUME <<k[1], k[2] + 1>> \in Present' PROVE FALSE
      OBVIOUS
    <3>2. PICK i \in w.keys : <<k[1], k[2] + 1>> = Next_(i)
      BY <1>7, <2>4, <3>1
    <3>3. i[1] = k[1] /\ i[2] = k[2]
      BY <1>3, <2>2, <3>2
    <3>4. i = k
      BY <1>3, <2>1, <2>2, <3>3
    <3>5. QED
      BY <1>2, <3>4
  <2>6. k \notin suspect' /\ rows'[k].type = TRACE => RightlyKeyed(rows'[k].content)
    <3>1. rows'[k].type = rows[j].type
      BY <1>2, <2>1
    <3>2. Next_(j) \notin suspect' /\ rows[j].type = TRACE => RightlyKeyed(rows'[Next_(j)].content)
      OBVIOUS
    <3>3. QED
      BY <2>1, <3>1, <3>2
  <2>7. j \in Present /\ rows'[j].status # "in_review"
    BY <1>2
  <2>8. QED
    BY <2>3, <2>5, <2>6, <2>7
<1>11. suspect' \subseteq Present'
  BY <1>1, <1>3, <1>5
<1>12. QED
  BY <1>4, <1>6, <1>8, <1>9, <1>10, <1>11 DEF WritesLawfully

LEMMA StatusIsAnEdit ==
    ASSUME LifecycleInv, NEW k \in Present,
           NEW status \in {"live", "retired", "pulled"},
           NEW r \in {[rows[k] EXCEPT !.status = status],
                      [rows[k] EXCEPT !.status = status, !.reviewed = TRUE],
                      [rows[k] EXCEPT !.fixedCode = TRUE]}
    PROVE  EditOf(k, r)
<1>1. rows[k] \in Exercise /\ Sound(rows[k])
  BY FreshReads
<1>2. r.type = rows[k].type /\ r.parent = rows[k].parent /\ r.content = rows[k].content
      /\ r.status \in {rows[k].status, status}
  BY <1>1 DEF Exercise
<1>3. r \in Exercise
  BY <1>1 DEF Exercise, Statuses
<1>4. QED
  BY <1>1, <1>2, <1>3 DEF EditOf, Sound

\* What the shuffle of what was read makes of a row.
LEMMA ShuffleOfRead ==
    ASSUME LifecycleInv, NEW k \in Present, NEW r, ReadSound(k, r), r.type = TRACE,
           r.content.key # NoChoice
    PROVE  LET c == Shuffled(r.content, Seeded[k[1]])
           IN  c \in Contents /\ Told(c) = Told(rows[k].content)
<1>1. r.content \in Contents /\ Told(r.content) = Told(rows[k].content)
  BY DEF ReadSound, Sound
<1>2. Seeded[k[1]] \in Permutation
  BY LifecycleAssumption DEF Permutation, Present, Keys
<1>3. PICK c \in Contents, s \in Permutation : c = r.content /\ s = Seeded[k[1]]
  BY <1>1, <1>2
<1>4. Shuffled(c, s) \in Contents /\ Told(Shuffled(c, s)) = Told(c)
  BY <1>3, ShuffledSaysTheSame
<1>5. QED
  BY <1>1, <1>3, <1>4

LEMMA ShuffleIsAnEdit ==
    ASSUME LifecycleInv, NEW k \in Present, NEW r, ReadSound(k, r), rows[k].type = TRACE,
           r.content.key # NoChoice
    PROVE  EditOf(k, [rows[k] EXCEPT !.content = Shuffled(r.content, Seeded[k[1]])])
<1>1. PICK c \in Contents : /\ c = Shuffled(r.content, Seeded[k[1]])
                            /\ Told(c) = Told(rows[k].content)
  BY ShuffleOfRead DEF ReadSound
<1>2. rows[k] \in Exercise
  BY FreshReads
<1>3. EditOf(k, [rows[k] EXCEPT !.content = c])
  BY <1>1, <1>2 DEF EditOf, Exercise
<1>4. QED
  BY <1>1, <1>3

\* What a fix makes of the row it read.
LEMMA OverriddenTyping ==
    ASSUME NEW row, Sound(row), NEW o \in Overrides
    PROVE  /\ Overridden(row, o) \in Exercise /\ Overridden(row, o).type = row.type
           /\ Overridden(row, o).parent \in {row.parent, None}
           /\ row.type = TRACE => /\ Rewritten(row.content, o) \in Contents
                                  /\ Overridden(row, o).content = Rewritten(row.content, o)
<1>1. row \in Exercise
  BY DEF Sound
<1>2. row.type = TRACE => Rewritten(row.content, o) \in Contents
  <2>1. SUFFICES ASSUME row.type = TRACE PROVE Rewritten(row.content, o) \in Contents
    OBVIOUS
  <2>2. PICK c \in Contents : c = row.content
    BY <2>1 DEF Sound
  <2>3. c.choices \in Layout /\ c.key \in Positions \cup {NoChoice} /\ c.why \in Notes
    BY DEF Contents
  <2>4. /\ Field(o, "choices", c.choices) \in Layout
        /\ Field(o, "key", c.key) \in Positions \cup {NoChoice}
        /\ Field(o, "why", c.why) \in Notes
    BY <2>3, OverridesAssumption DEF Field
  <2>5. QED
    BY <2>2, <2>4 DEF Rewritten, Contents
<1> DEFINE content == IF row.type = TRACE THEN Rewritten(row.content, o) ELSE row.content
           code == IF row.type = STB THEN Field(o, "fixedCode", row.fixedCode) ELSE row.fixedCode
           parent == Field(o, "parent", row.parent)
<1>3. code \in BOOLEAN
  BY <1>1, OverridesAssumption DEF Field, Exercise
<1>4. parent \in {row.parent, None}
  BY OverridesAssumption DEF Field
<1>5. content \in Contents \cup {None}
  BY <1>1, <1>2 DEF Exercise
<1>6. Overridden(row, o) = [row EXCEPT !.content = content, !.fixedCode = code, !.parent = parent]
  BY <1>1 DEF Overridden, Exercise
<1> HIDE DEF content, code, parent
<1>7. /\ [row EXCEPT !.content = content, !.fixedCode = code, !.parent = parent] \in Exercise
      /\ [row EXCEPT !.content = content, !.fixedCode = code, !.parent = parent].type = row.type
      /\ [row EXCEPT !.content = content, !.fixedCode = code, !.parent = parent].parent = parent
      /\ [row EXCEPT !.content = content, !.fixedCode = code, !.parent = parent].content = content
  BY <1>1, <1>3, <1>4, <1>5 DEF Exercise
<1>8. QED
  BY <1>2, <1>4, <1>6, <1>7 DEF content

\* A version for review, made of a row.
LEMMA VersionForReview ==
    ASSUME NEW row \in Exercise
    PROVE  LET r == [row EXCEPT !.status = "in_review", !.reviewed = FALSE]
           IN  /\ r \in Exercise /\ r.type = row.type /\ r.parent = row.parent
               /\ r.content = row.content
BY DEF Exercise, Statuses

LEMMA FixIsLawful ==
    ASSUME LifecycleInv, NEW w, TaskSound(w), NEW k \in Present, w.keys = {k}, w.op = "fix",
           ~Collides({k}), NEW o \in Overrides, rows' = Fixed(k, w.read[k], o),
           suspect' = IF PutTogetherRight(w.saw, w.read[k], o)
                      THEN suspect ELSE suspect \cup {Next_(k)}
    PROVE  WritesLawfully
<1> DEFINE row == w.read[k]
           n == Next_(k)
           new == [Overridden(row, o) EXCEPT !.status = "in_review", !.reviewed = FALSE]
           table == [rows EXCEPT ![n] = new]
<1>1. rows \in [Keys -> Exercise \cup {None}] /\ rows[k] \in Exercise /\ k \in Keys
      /\ k[2] < MaxVersion
  BY FreshReads DEF LifecycleInv, TableSound, RowsSound, TaskSound, Present
<1>2. Sound(row) /\ row.type = rows[k].type /\ Sound(w.saw) /\ w.saw.type = rows[k].type
      /\ (row.status # "in_review" => rows[k].status # "in_review")
  BY DEF TaskSound, ReadSound
<1>3. /\ Overridden(row, o) \in Exercise /\ Overridden(row, o).type = row.type
      /\ Overridden(row, o).parent \in {row.parent, None}
      /\ row.type = TRACE => /\ Rewritten(row.content, o) \in Contents
                             /\ Overridden(row, o).content = Rewritten(row.content, o)
  BY <1>2, OverriddenTyping
<1>4. new \in Exercise /\ new.type = row.type /\ new.parent \in {row.parent, None}
      /\ (row.type = TRACE => /\ new.content \in Contents
                              /\ new.content = Rewritten(row.content, o))
  BY <1>3, VersionForReview
<1>5. n \notin suspect' /\ rows[k].type = TRACE => RightlyKeyed(new.content)
  <2>1. n \notin suspect' => PutTogetherRight(w.saw, row, o)
    OBVIOUS
  <2>2. PutTogetherRight(w.saw, row, o) /\ row.type = TRACE => RightlyKeyed(Rewritten(row.content, o))
    BY DEF PutTogetherRight
  <2>3. QED
    BY <1>2, <1>4, <2>1, <2>2
<1>6. n # k /\ n \in Keys
  <2>1. k = <<k[1], k[2]>> /\ k[1] \in Ids /\ k[2] \in 1 .. MaxVersion /\ MaxVersion \in Nat
    BY <1>1, LifecycleAssumption DEF Keys
  <2>2. QED
    BY <1>1, <2>1 DEF Next_, Keys
<1>7. suspect \subseteq suspect' /\ suspect' \subseteq suspect \cup {n}
  OBVIOUS
<1> HIDE DEF new, n
<1>8. table \in [Keys -> Exercise \cup {None}] /\ table[n] = new /\ table[k] = rows[k]
      /\ \A j \in Keys : j # n => table[j] = rows[j]
  BY <1>1, <1>4, <1>6
<1>9. rows' = IF row.status = "live" THEN table ELSE WithStatus(table, k, row, "retired")
  BY DEF Fixed, Bumped, new, n
<1>10. CASE row.status \in {"live", "retired"}
  <2>1. rows' = table /\ rows[k].status # "in_review"
    BY <1>2, <1>9, <1>10 DEF WithStatus
  <2>2. rows'[k].status # "in_review" /\ rows'[n] = new /\ \A j \in Keys : j # n => rows'[j] = rows[j]
    BY <1>8, <2>1
  <2>3. QED
    BY <1>1, <1>2, <1>4, <1>5, <1>7, <1>8, <2>1, <2>2, NewVersionsAreLawful DEF n
<1>11. CASE row.status \notin {"live", "retired"}
  <2>1. rows' = [table EXCEPT ![k] = [rows[k] EXCEPT !.status = "retired"]]
    BY <1>8, <1>9, <1>11 DEF WithStatus
  <2>2. EditOf(k, [rows[k] EXCEPT !.status = "retired"])
        /\ [rows[k] EXCEPT !.status = "retired"].status = "retired"
    BY <1>1, StatusIsAnEdit DEF Exercise
  <2>3. rows' \in [Keys -> Exercise \cup {None}] /\ rows'[n] = new
        /\ rows'[k] = [rows[k] EXCEPT !.status = "retired"]
        /\ \A j \in Keys : j # n /\ j # k => rows'[j] = rows[j]
    BY <1>1, <1>6, <1>8, <2>1, <2>2 DEF EditOf
  <2>4. QED
    BY <1>1, <1>2, <1>4, <1>5, <1>7, <2>2, <2>3, NewVersionsAreLawful DEF n
<1>12. QED
  BY <1>10, <1>11

LEMMA BumpIsLawful ==
    ASSUME LifecycleInv, NEW w, TaskSound(w), w.op = "bump", ~Collides(w.keys),
           rows' = BumpedAll(w.read),
           suspect' = suspect \cup {Next_(k) : k \in w.keys \cap suspect}
    PROVE  WritesLawfully
<1>1. /\ rows \in [Keys -> Exercise \cup {None}] /\ DOMAIN w.read = w.keys
      /\ w.keys \subseteq Present /\ w.keys \subseteq Keys
      /\ \A k \in w.keys : k[2] < MaxVersion /\ rows[k].type = TRACE /\ ReadSound(k, w.read[k])
                           /\ rows[k].status # "in_review" /\ w.read[k].content.key # NoChoice
  BY DEF LifecycleInv, TableSound, RowsSound, TaskSound, ReadSound, Present
<1> DEFINE content(j) == Shuffled(w.read[j].content, Seeded[j[1]])
           made(j) == [w.read[j] EXCEPT !.content = Shuffled(@, Seeded[j[1]])]
           new(j) == [made(j) EXCEPT !.status = "in_review", !.reviewed = FALSE]
<1>2. ASSUME NEW j \in w.keys
      PROVE  /\ new(j) \in Exercise /\ new(j).type = w.read[j].type
             /\ new(j).parent = w.read[j].parent /\ new(j).content \in Contents
             /\ j \notin suspect => RightlyKeyed(new(j).content)
  <2>1. content(j) \in Contents /\ Told(content(j)) = Told(rows[j].content)
    <3>1. w.read[j].type = TRACE
      BY <1>1 DEF ReadSound
    <3>2. QED
      BY <1>1, <3>1, ShuffleOfRead
  <2>2. PICK c \in Contents : c = content(j)
    BY <2>1
  <2>3. w.read[j] \in Exercise
    BY DEF TaskSound
  <2>4. made(j) = [w.read[j] EXCEPT !.content = c]
    BY <2>2, <2>3 DEF Exercise
  <2> HIDE DEF made
  <2>5. made(j) \in Exercise /\ made(j).type = w.read[j].type
        /\ made(j).parent = w.read[j].parent /\ made(j).content = c
    BY <2>3, <2>4 DEF Exercise
  <2>6. new(j) \in Exercise /\ new(j).type = made(j).type /\ new(j).parent = made(j).parent
        /\ new(j).content = c
    BY <2>5, VersionForReview
  <2>7. j \notin suspect => RightlyKeyed(c)
    <3>1. SUFFICES ASSUME j \notin suspect PROVE RightlyKeyed(c)
      OBVIOUS
    <3>2. rows[j].content \in Contents /\ RightlyKeyed(rows[j].content)
      BY <1>1, <3>1 DEF LifecycleInv, TableSound, RowsSound, Sound, KeyFollowsTheAnswer
    <3>3. QED
      BY <2>1, <2>2, <3>2, RightIsTold
  <2> HIDE DEF new
  <2>8. QED
    BY <2>5, <2>6, <2>7
<1> HIDE DEF content, made
<1>3. ASSUME NEW j \in w.keys
      PROVE  /\ Next_(j) \in Keys /\ Next_(j) \notin Present
             /\ <<Next_(j)[1], Next_(j)[2] - 1>> = j
  <2>1. j = <<j[1], j[2]>> /\ j[1] \in Ids /\ j[2] \in 1 .. MaxVersion /\ MaxVersion \in Nat
        /\ j[2] < MaxVersion
    BY <1>1, LifecycleAssumption DEF Keys
  <2>2. Next_(j) = <<j[1], j[2] + 1>> /\ Next_(j) \in Keys
    BY <2>1 DEF Next_, Keys
  <2>3. QED
    BY <2>1, <2>2 DEF Collides, Present
<1>4. ASSUME NEW k \in Keys, <<k[1], k[2] - 1>> \in w.keys
      PROVE  k = Next_(<<k[1], k[2] - 1>>)
  BY <1>4 DEF Next_, Keys
<1>5. \A k \in Keys : rows'[k] = IF <<k[1], k[2] - 1>> \in w.keys
                                 THEN new(<<k[1], k[2] - 1>>) ELSE rows[k]
  <2> SUFFICES ASSUME NEW k \in Keys
               PROVE  rows'[k] = IF <<k[1], k[2] - 1>> \in w.keys
                                 THEN new(<<k[1], k[2] - 1>>) ELSE rows[k]
    OBVIOUS
  <2> DEFINE from == <<k[1], k[2] - 1>>
  <2>1. rows'[k] = IF from \in w.keys THEN Bumped(rows, from, made(from))[k] ELSE rows[k]
    BY <1>1 DEF BumpedAll, made
  <2>2. from \in w.keys => Bumped(rows, from, made(from))[k] = new(from)
    <3>1. ASSUME from \in w.keys
          PROVE  [rows EXCEPT ![Next_(from)] = new(from)][k] = new(from)
      <4>1. k = Next_(from)
        BY <1>4, <3>1
      <4> HIDE DEF new, from
      <4>2. QED
        BY <1>1, <4>1
    <3>2. QED
      BY <3>1 DEF Bumped
  <2>3. QED
    BY <2>1, <2>2
<1> HIDE DEF new
<1>6. rows' \in [Keys -> Exercise \cup {None}]
  <2>1. rows' = [k \in Keys |-> rows'[k]]
    BY DEF BumpedAll
  <2>2. \A k \in Keys : rows'[k] \in Exercise \cup {None}
    BY <1>1, <1>2, <1>5
  <2>3. QED
    BY <2>1, <2>2
<1>7. \A j \in w.keys : rows'[Next_(j)] = new(j)
  BY <1>3, <1>5
<1>8. \A k \in Keys : rows'[k] = rows[k] \/ \E j \in w.keys : k = Next_(j)
  BY <1>4, <1>5
<1>9. \A k \in w.keys : rows'[k] = rows[k]
  BY <1>1, <1>3, <1>8
<1>10. \A k \in w.keys : Next_(k) \notin suspect' => k \notin suspect
  OBVIOUS
<1>11. suspect \subseteq suspect' /\ suspect' \subseteq suspect \cup {Next_(k) : k \in w.keys}
  OBVIOUS
<1>12. \A k \in w.keys :
           /\ rows'[Next_(k)] \in Exercise
           /\ rows'[Next_(k)].type = w.read[k].type
           /\ rows'[Next_(k)].parent \in {w.read[k].parent, None}
           /\ rows[k].type = TRACE => rows'[Next_(k)].content \in Contents
           /\ Next_(k) \notin suspect' /\ rows[k].type = TRACE =>
                  RightlyKeyed(rows'[Next_(k)].content)
           /\ rows'[k].status # "in_review"
  BY <1>1, <1>2, <1>7, <1>9, <1>10
<1>13. \A k \in w.keys : k[2] < MaxVersion
  BY <1>1
<1>14. \A k \in Keys : \/ rows'[k] = rows[k]
                       \/ \E j \in w.keys : k = Next_(j)
                       \/ k \in w.keys /\ EditOf(k, rows'[k])
  BY <1>8
<1>15. QED
  BY <1>6, <1>11, <1>12, <1>13, <1>14, NewVersionsAreLawful

LEMMA InsertIsLawful ==
    ASSUME LifecycleInv, suspect' = suspect, NEW i \in Ids, \A x \in Present : x[1] # i, NEW r \in Exercise,
           r.parent # None => r.parent \in Present /\ rows[r.parent].type = STB,
           r.type = TRACE => r.content \in Contents /\ RightlyKeyed(r.content),
           rows' = [rows EXCEPT ![<<i, 1>>] = r]
    PROVE  WritesLawfully
<1>1. /\ rows \in [Keys -> Exercise \cup {None}]
      /\ \A k \in Present : Sound(rows[k])
      /\ suspect \subseteq Present
  BY DEF LifecycleInv, TableSound, RowsSound
<1>2. <<i, 1>> \in Keys /\ <<i, 1>> \notin Present
  BY LifecycleAssumption DEF Keys
<1>3. rows' \in [Keys -> Exercise \cup {None}] /\ rows'[<<i, 1>>] = r
      /\ \A k \in Keys : k # <<i, 1>> => rows'[k] = rows[k]
  BY <1>1, <1>2
<1>4. Present' = Present \cup {<<i, 1>>}
  BY <1>2, <1>3, SentinelAssumption DEF Present
<1>5. \A k \in Present : rows'[k] = rows[k]
  BY <1>2, <1>3 DEF Present
<1>6. <<i, 2>> \notin Present'
  BY <1>4
<1>7. \A k \in Present' : /\ rows'[k].parent # None => /\ rows'[k].parent \in Present
                                                       /\ rows[rows'[k].parent].type = STB
                          /\ rows'[k].type = TRACE => rows'[k].content \in Contents
  BY <1>1, <1>3, <1>4, <1>5 DEF Sound
<1>8. RowsKept
  BY <1>4, <1>5 DEF RowsKept
<1>9. \A k \in Present' \ Present : k = <<i, 1>> /\ k[1] = i /\ k[2] = 1
  BY <1>4
<1>10. ASSUME NEW k \in Present' \ Present
       PROVE  /\ k[2] = 1 /\ <<k[1], k[2] + 1>> \notin Present'
              /\ rows'[k].type = TRACE => RightlyKeyed(rows'[k].content)
  <2>1. k[2] = 1 /\ <<k[1], k[2] + 1>> = <<i, 2>>
    BY <1>9
  <2>2. rows'[k] = r
    BY <1>3, <1>9
  <2>3. QED
    BY <1>6, <2>1, <2>2
<1>11. suspect \subseteq suspect' /\ suspect' \subseteq Present'
  BY <1>1, <1>4
<1>12. \A k \in Present : rows'[k].status = "in_review" => rows[k].status = "in_review"
  BY <1>5
<1>13. QED
  BY <1>3, <1>7, <1>8, <1>10, <1>11, <1>12 DEF WritesLawfully

LEMMA WriteIsLawful ==
    ASSUME LifecycleInv, NEW t \in Tools, tool[t] # None, Write(t)
    PROVE  WritesLawfully
<1>1. PICK w : w = tool[t]
  OBVIOUS
<1>2. TaskSound(w) /\ w.keys \subseteq Present /\ DOMAIN w.read = w.keys
      /\ \A x \in w.keys : ReadSound(x, w.read[x])
  BY <1>1 DEF LifecycleInv, TasksSound, TaskSound
<1>3. rows \in [Keys -> Exercise \cup {None}] /\ Present \subseteq Keys
  BY DEF LifecycleInv, TableSound, RowsSound, Present
<1>4. PICK k : k = CHOOSE x \in w.keys : TRUE
  OBVIOUS
<1>5. w.op \in {"approve", "kill", "pull", "fix", "derive"} => w.keys = {k} /\ k \in Present
  BY <1>2, <1>4 DEF TaskSound
<1>6. ASSUME k \in Present, suspect' = suspect, NEW status \in {"live", "retired", "pulled"},
             \/ rows' = rows
             \/ rows' = [rows EXCEPT ![k].status = status]
             \/ rows' = [rows EXCEPT ![k].status = status, ![k].reviewed = TRUE]
      PROVE  WritesLawfully
  <2>1. CASE rows' = rows
    BY <1>3, <1>6, <2>1, EditsAreLawful
  <2>2. ASSUME NEW r, EditOf(k, r), rows' = [rows EXCEPT ![k] = r]
        PROVE  WritesLawfully
    <3>1. r \in Exercise
      BY <2>2 DEF EditOf
    <3>2. rows' \in [Keys -> Exercise \cup {None}] /\ rows'[k] = r
          /\ \A x \in Keys : x # k => rows'[x] = rows[x]
      BY <1>3, <1>6, <2>2, <3>1
    <3>3. QED
      BY <1>6, <2>2, <3>2, EditsAreLawful
  <2>3. EditOf(k, [rows[k] EXCEPT !.status = status])
        /\ EditOf(k, [rows[k] EXCEPT !.status = status, !.reviewed = TRUE])
    BY <1>6, StatusIsAnEdit
  <2>4. \/ rows' = rows
        \/ rows' = [rows EXCEPT ![k] = [rows[k] EXCEPT !.status = status]]
        \/ rows' = [rows EXCEPT ![k] = [rows[k] EXCEPT !.status = status, !.reviewed = TRUE]]
    BY <1>3, <1>6
  <2>5. QED
    BY <2>1, <2>2, <2>3, <2>4
<1>7. CASE w.op = "approve" /\ rows' = Approved(k) /\ suspect' = suspect
  BY <1>5, <1>6, <1>7 DEF Approved
<1>8. CASE w.op \in {"kill", "pull"} /\ suspect' = suspect
           /\ \E status \in {"retired", "pulled"} : rows' = WithStatus(rows, k, w.read[k], status)
  BY <1>5, <1>6, <1>8 DEF WithStatus
<1>9. CASE w.op = "fix" /\ ~Collides({k})
           /\ \E o \in Overrides :
                /\ rows' = Fixed(k, w.read[k], o)
                /\ suspect' = IF PutTogetherRight(w.saw, w.read[k], o)
                              THEN suspect ELSE suspect \cup {Next_(k)}
  BY <1>2, <1>5, <1>9, FixIsLawful
<1>10. CASE w.op = "reshuffle" /\ rows' = Reshuffled(w.read) /\ suspect' = suspect
  <2>1. \A x \in Keys : \/ rows'[x] = rows[x]
                        \/ /\ x \in w.keys
                           /\ rows'[x] = [rows[x] EXCEPT
                                  !.content = Shuffled(w.read[x].content, Seeded[x[1]])]
    BY <1>2, <1>10 DEF Reshuffled
  <2>2. \A x \in w.keys : rows[x].type = TRACE /\ w.read[x].content.key # NoChoice
    BY <1>2, <1>10 DEF TaskSound
  <2>3. ASSUME NEW x \in Keys PROVE rows'[x] = rows[x] \/ (x \in Present /\ EditOf(x, rows'[x]))
    <3>1. SUFFICES ASSUME x \in w.keys
                   PROVE  EditOf(x, [rows[x] EXCEPT
                              !.content = Shuffled(w.read[x].content, Seeded[x[1]])])
      BY <1>2, <2>1
    <3>2. PICK r : r = w.read[x]
      OBVIOUS
    <3>3. x \in Present /\ ReadSound(x, r) /\ rows[x].type = TRACE /\ r.content.key # NoChoice
      BY <1>2, <2>2, <3>1, <3>2
    <3>4. QED
      BY <3>2, <3>3, ShuffleIsAnEdit
  <2>4. rows' = [x \in Keys |-> rows'[x]]
    BY <1>10 DEF Reshuffled
  <2>5. rows' \in [Keys -> Exercise \cup {None}]
    BY <1>3, <2>3, <2>4 DEF EditOf
  <2>6. QED
    BY <1>10, <2>3, <2>5, EditsAreLawful
<1>11. CASE w.op = "bump" /\ ~Collides(w.keys) /\ rows' = BumpedAll(w.read)
            /\ suspect' = suspect \cup {Next_(x) : x \in w.keys \cap suspect}
  BY <1>2, <1>11, BumpIsLawful
<1>12. CASE w.op = "backfill" /\ suspect' = suspect
            /\ rows' = [x \in Keys |-> IF x \in w.keys THEN [rows[x] EXCEPT !.fixedCode = TRUE]
                                                       ELSE rows[x]]
  <2>1. \A x \in Keys : \/ rows'[x] = rows[x]
                        \/ x \in w.keys /\ rows'[x] = [rows[x] EXCEPT !.fixedCode = TRUE]
    BY <1>12
  <2>2. ASSUME NEW x \in Keys PROVE rows'[x] = rows[x] \/ (x \in Present /\ EditOf(x, rows'[x]))
    <3>1. x \in w.keys => x \in Present /\ EditOf(x, [rows[x] EXCEPT !.fixedCode = TRUE])
      BY <1>2, StatusIsAnEdit
    <3>2. QED
      BY <2>1, <3>1
  <2>3. rows' = [x \in Keys |-> rows'[x]]
    BY <1>12
  <2>4. rows' \in [Keys -> Exercise \cup {None}]
    BY <1>3, <2>2, <2>3 DEF EditOf
  <2>5. QED
    BY <1>12, <2>2, <2>4, EditsAreLawful
<1>13. CASE w.op = "derive" /\ suspect' = suspect /\ \E i \in Ids :
               /\ \A x \in Present : x[1] # i
               /\ rows' = [rows EXCEPT ![<<i, 1>>] = [NewRow(PTF, None) EXCEPT !.parent = k]]
  <2>1. PICK i \in Ids : /\ \A x \in Present : x[1] # i
                         /\ rows' = [rows EXCEPT ![<<i, 1>>] =
                                         [NewRow(PTF, None) EXCEPT !.parent = k]]
    BY <1>13
  <2>2. PICK r : r = [NewRow(PTF, None) EXCEPT !.parent = k]
    OBVIOUS
  <2>3. r \in Exercise /\ r.parent = k /\ r.type = PTF
    BY <1>3, <1>5, <1>13, <2>2 DEF NewRow, Exercise, Statuses
  <2>4. k \in Present /\ rows[k].type = STB
    BY <1>2, <1>5, <1>13 DEF TaskSound
  <2>5. r.type # TRACE
    BY <2>3 DEF PTF, TRACE
  <2>6. QED
    BY <1>13, <2>1, <2>2, <2>3, <2>4, <2>5, InsertIsLawful
<1>14. QED
  BY <1>1, <1>4, <1>7, <1>8, <1>9, <1>10, <1>11, <1>12, <1>13 DEF Write

\* The pipeline's own rows.
LEMMA PublishedIsLawful ==
    ASSUME LifecycleInv, NEW i \in Ids, Insert(i)
    PROVE  WritesLawfully
<1>1. PICK r : /\ rows' = [rows EXCEPT ![<<i, 1>>] = r]
               /\ \/ \E layout \in Layout : r = NewRow(TRACE, Content(layout))
                  \/ \E has \in BOOLEAN : r = [NewRow(STB, None) EXCEPT !.fixedCode = has]
  BY DEF Insert
<1>2. \A layout \in Layout : Content(layout) \in Contents /\ RightlyKeyed(Content(layout))
  BY ContentIsKeyed
<1>3. r \in Exercise /\ r.parent = None
      /\ (r.type = TRACE => r.content \in Contents /\ RightlyKeyed(r.content))
  <2>1. CASE \E layout \in Layout : r = NewRow(TRACE, Content(layout))
    BY <1>2, <2>1 DEF NewRow, Exercise, Statuses
  <2>2. CASE \E has \in BOOLEAN : r = [NewRow(STB, None) EXCEPT !.fixedCode = has]
    BY <2>2 DEF NewRow, Exercise, Statuses, STB, TRACE
  <2>3. QED
    BY <1>1, <2>1, <2>2
<1>4. QED
  BY <1>1, <1>3, InsertIsLawful DEF Insert

\* A step that writes the table lawfully, and at most ends tasks.
LEMMA LawfulKeeps ==
    ASSUME LifecycleInv, WritesLawfully, shown' = shown, DOMAIN tool' = Tools,
           \A t \in Tools : tool'[t] \in {tool[t], None}
    PROVE  LifecycleInv'
<1>1. TableSound'
  BY TableStays DEF LifecycleInv, WritesLawfully
<1>2. TasksSound' /\ ShownSound'
  BY TasksStay, ShownStays DEF LifecycleInv, WritesLawfully
<1>3. QED
  BY <1>1, <1>2 DEF LifecycleInv

LEMMA NothingWritten ==
    ASSUME LifecycleInv, SameTable, ShownSound', DOMAIN tool' = Tools,
           \A t \in Tools : tool'[t] \in {tool[t], None}
    PROVE  LifecycleInv'
BY SameTableKeeps, TasksStay DEF LifecycleInv

LEMMA InvIsInductive ==
    ASSUME LifecycleInv, [Next]_vars
    PROVE  LifecycleInv'
<1>1. ASSUME NEW t \in Tools,
             Command(t) \/ Reshuffle(t) \/ BumpLive(t) \/ PtfIngest(t) \/ Backfill(t)
      PROVE  LifecycleInv'
  BY <1>1, StartsKeep
<1>2. ASSUME NEW t \in Tools, Fix(t) PROVE LifecycleInv'
  BY <1>2, FixKeeps
<1>3. ASSUME NEW t \in Tools, Commit(t) PROVE LifecycleInv'
  <2>1. WritesLawfully
    BY <1>3, WriteIsLawful DEF Commit
  <2>2. shown' = shown /\ DOMAIN tool' = Tools /\ \A u \in Tools : tool'[u] \in {tool[u], None}
    BY <1>3 DEF Commit, LifecycleInv, TasksSound
  <2>3. QED
    BY <2>1, <2>2, LawfulKeeps
<1>4. ASSUME NEW t \in Tools, Abandon(t) PROVE LifecycleInv'
  <2>1. SameTable /\ shown' = shown
        /\ DOMAIN tool' = Tools /\ \A u \in Tools : tool'[u] \in {tool[u], None}
    BY <1>4 DEF Abandon, SameTable, LifecycleInv, TasksSound
  <2>2. ShownSound'
    BY <2>1, SameTableKeeps, ShownStays DEF LifecycleInv
  <2>3. QED
    BY <2>1, <2>2, NothingWritten
<1>5. ASSUME NEW i \in Ids, Insert(i) PROVE LifecycleInv'
  <2>1. shown' = shown /\ tool' = tool /\ DOMAIN tool = Tools
    BY <1>5 DEF Insert, LifecycleInv, TasksSound
  <2>2. WritesLawfully
    BY <1>5, PublishedIsLawful
  <2>3. QED
    BY <2>1, <2>2, LawfulKeeps
<1>6. ASSUME NEW i \in Ids, Serve(i) PROVE LifecycleInv'
  <2>1. SameTable /\ tool' = tool /\ DOMAIN tool = Tools
    BY <1>6 DEF Serve, SameTable, LifecycleInv, TasksSound
  <2>2. PICK k \in Keys : shown' = [shown EXCEPT ![k] = [content |-> rows[k].content]] /\ k \in Present
    BY <1>6 DEF Serve, Live, Present
  <2>3. ShownSound'
    BY <2>1, <2>2, SameTableKeeps DEF SameTable, LifecycleInv, ShownSound
  <2>4. QED
    BY <2>1, <2>3, NothingWritten
<1>7. CASE UNCHANGED vars
  <2>1. SameTable /\ tool' = tool /\ shown' = shown /\ DOMAIN tool = Tools
    BY <1>7 DEF vars, SameTable, LifecycleInv, TasksSound
  <2>2. ShownSound'
    BY <2>1, SameTableKeeps, ShownStays DEF LifecycleInv
  <2>3. QED
    BY <2>1, <2>2, NothingWritten
<1>8. QED
  BY <1>1, <1>2, <1>3, <1>4, <1>5, <1>6, <1>7 DEF Next

-----------------------------------------------------------------------------
LEMMA Invariant == Spec => []LifecycleInv
<1>1. LifecycleInv /\ [Next]_vars => LifecycleInv'
  BY InvIsInductive
<1>2. QED
  BY InvInitially, <1>1, PTL DEF Spec

(* A trace is mis-keyed only by a fix whose override disagrees with what   *)
(* its operator was shown or with what a shuffle has made of it since, or  *)
(* as a bump of such a version (fix_and_bump keeps the fields that are not *)
(* overridden); reshuffle_trace_choices, whatever it read before whose     *)
(* commit, mis-keys none.                                                  *)
THEOREM KeysStayRight == Spec => []WellKeyed
BY Invariant, InvImplies, PTL

(* A version in review has no successor: update_exercise_fields and the    *)
(* bump take a row out of review, or find it out, before they insert the   *)
(* next, and no row comes back.                                            *)
THEOREM NewestIsReviewed == Spec => []ReviewQueueHoldsTheNewest
BY Invariant, InvImplies, PTL

(* What a served trace says of each choice is what it says for ever after: *)
(* fix_and_bump writes another version, and the shuffle in place, even of  *)
(* a version that went live since it was read, moves key and notes along.  *)
THEOREM ServedStaysTold == Spec => []ServedSaysTheSame
BY Invariant, InvImplies, PTL
=============================================================================
