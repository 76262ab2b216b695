------------------------- MODULE MCServices_proofs --------------------------
(***************************************************************************)
(* Theorems about the parts that MCServices sets side by side, each for    *)
(* every value of the part's constants and every behaviour of the part:    *)
(*   SignInIsSound           R!Spec => []RefreshIsSound                    *)
(*   AddressesAreProven      V!Spec => []AddressBelongsToItsProver         *)
(*   OneProcessSettlesOnce   one process: G!Spec => []GradingSettlesOnce   *)
(*   LocksSerialize          S!Spec => []LocksProtect                      *)
(*   TriggerIsGuarded        J!Spec => []JobsAreGuarded                    *)
(*   RateIsKept              B!Spec => []BucketIsSound                     *)
(*   DisputesOverlap         D!Spec => []D!SecondDisputeOverlaps           *)
(*   ReviewsAreTheNewest     D!Spec => []D!ReviewIsTheNewestOpinion        *)
(* and a behaviour of MCServices is one of each part (PartsAsTheyAre), so  *)
(* that what is proved of a part holds of the whole:                       *)
(*   ServicesTyping          one process: Spec => []TypeOK                 *)
(*   FeedbackStaysSound      Spec => []FeedbackIsSound                     *)
(*   A refresh checks its token without a lock; what makes two heirs an    *)
(* overlap and nothing worse is that whoever has passed the check read     *)
(* before any heir, and what keeps a tab from alarming itself is that an   *)
(* heir is in the jar before its tab asks again, or is lost (Knowledge,    *)
(* JarIsNewest, NoRaceWithItself).                                         *)
(*   A promotion decides at its flush that nobody else has the address;    *)
(* what keeps this true until it commits is that the unique index makes    *)
(* any other promotion of the address wait (Room, Alone).  A grading run   *)
(* may commit what it has read because nobody else settles an attempt      *)
(* meanwhile (FreshRows); with two processes this is false.  Transactions  *)
(* of one family and one lock follow one another, so each commits upon the *)
(* row it has read (SteadyOp, CommitsAlone).  The limiter's                *)
(* bucket is refilled by a clock that is set back by whoever asked first   *)
(* and runs last; counting what it was set back, it only goes forward, and *)
(* it has paid for all that was let in (AllPaid).  What a request looked   *)
(* at before it disputes is settled for good (LookedFirst).                *)
(*   The shapes of the parts rest on these invariants and on what each     *)
(* adds to them: a verdict is counted at most once (WithinJudged), a call  *)
(* has its job on its list until it is done with it (OnItsList), and the   *)
(* balance of freezes of whatever was read and of whatever is to be        *)
(* written is one that the account may have (Values).                      *)
(***************************************************************************)
EXTENDS MCServices, DailyPractice_proofs, SequenceTheorems, FiniteSetTheorems, TLAPS

-----------------------------------------------------------------------------
(* A behaviour of MCServices is a behaviour of every part: each step is    *)
(* one part's, and the others stay as they begin.                          *)
THEOREM PartsAsTheyAre ==
    Spec => R!Spec /\ V!Spec /\ G!Spec /\ S!Spec /\ J!Spec /\ B!Spec /\ P!Spec /\ D!Spec
<1>1. Init => R!Init /\ V!Init /\ G!Init /\ S!Init /\ J!Init /\ B!Init /\ P!Init /\ D!Init
  BY DEF Init
<1>2. /\ signIn = R!vars /\ address = V!vars /\ grading = G!vars /\ streak = S!vars
      /\ trigger = J!vars /\ limiter = B!vars /\ practice = P!vars
      /\ feedback = D!vars
  BY DEF signIn, address, grading, streak, trigger, limiter, practice, feedback,
         R!vars, V!vars, G!vars, S!vars, J!vars, B!vars, P!vars, D!vars, G!log, J!process, J!faults
<1>3. [Next]_vars => /\ [R!Next]_R!vars /\ [V!Next]_V!vars /\ [G!Next]_G!vars
                     /\ [S!Next]_S!vars /\ [J!Next]_J!vars /\ [B!Next]_B!vars
                     /\ [P!Next]_P!vars /\ [D!Next]_D!vars
  BY DEF Next, vars, signIn, address, grading, streak, trigger, limiter, practice, feedback,
         R!vars, V!vars, G!vars, S!vars, J!vars, B!vars, P!vars, D!vars, G!log, J!process, J!faults
<1>4. QED
  BY <1>1, <1>3, PTL
     DEF Spec, R!Spec, V!Spec, G!Spec, S!Spec, J!Spec, B!Spec, P!Spec, D!Spec

-----------------------------------------------------------------------------
(* RefreshTokens: what a token's heirs and a tab's alarms come from.       *)
TokenRow ==
    [parent : Nat, family : Nat, rotated : BOOLEAN, revoked : BOOLEAN, expired : BOOLEAN,
     tab : Tabs, read : Nat, lost : BOOLEAN]

RequestRow ==
    [kind : {"refresh", "logout"}, tab : Tabs, token : Nat,
     phase : {"sent", "passed", "refused", "alarm", "committed", "answered"},
     read : Nat, child : Nat]

SignInTyping ==
    /\ tokens \in Seq(TokenRow) /\ reqs \in Seq(RequestRow)
    /\ jar \in 0 .. Len(tokens) /\ flight \in [Tabs -> Nat]

\* An heir comes after its parent, which is stamped; a stamp has an heir.
Descent ==
    /\ \A j \in 1 .. Len(tokens) :
           /\ tokens[j].parent \in 0 .. (j - 1)
           /\ tokens[j].parent # 0 => tokens[tokens[j].parent].rotated
    /\ \A i \in 1 .. Len(tokens) :
           tokens[i].rotated => \E j \in 1 .. Len(tokens) : tokens[j].parent = i

\* What a request knows: its token, and how many there were when it read it.
\* Whoever has passed read before the token had an heir.
Knowledge ==
    \A r \in 1 .. Len(reqs) :
        /\ reqs[r].token <= Len(tokens) /\ reqs[r].read <= Len(tokens)
        /\ reqs[r].child <= Len(tokens)
        /\ reqs[r].phase \in {"passed", "alarm"} => reqs[r].token # 0
        /\ reqs[r].phase = "passed" =>
               \A j \in 1 .. Len(tokens) : tokens[j].parent = reqs[r].token => reqs[r].read < j
        /\ reqs[r].phase = "alarm" =>
               tokens[reqs[r].token].rotated \/ tokens[reqs[r].token].revoked

\* A tab awaits a refresh of its own.
Flights ==
    \A t \in Tabs : flight[t] # 0 =>
        /\ flight[t] \in 1 .. Len(reqs)
        /\ reqs[flight[t]].tab = t /\ reqs[flight[t]].kind = "refresh"

Carries(r) == reqs[r].kind = "refresh" /\ reqs[r].phase = "committed"

\* An heir whose answer has not come is nobody's to use, and each answer
\* carries its own.
Undelivered ==
    /\ \A r \in 1 .. Len(reqs) : Carries(r) =>
           /\ reqs[r].child # 0 /\ reqs[r].child # jar
           /\ \A q \in 1 .. Len(reqs) : reqs[q].token # reqs[r].child
           /\ \A j \in 1 .. Len(tokens) : tokens[j].parent # reqs[r].child
    /\ \A q, r \in 1 .. Len(reqs) :
           q # r /\ reqs[r].child # 0 => reqs[q].child # reqs[r].child

\* The token in the jar has an heir only if its answer is lost or on its way.
JarIsNewest ==
    \A j \in 1 .. Len(tokens) :
        (jar # 0 /\ tokens[j].parent = jar /\ ~tokens[j].lost) =>
            \E r \in 1 .. Len(reqs) :
                flight[tokens[j].tab] = r /\ Carries(r) /\ reqs[r].child = j

\* The token a tab awaits an answer for has no heir of that tab but lost ones.
NoRaceWithItself ==
    \A t \in Tabs : \A j \in 1 .. Len(tokens) :
        (/\ flight[t] # 0 /\ reqs[flight[t]].phase \in {"sent", "passed", "alarm"}
         /\ reqs[flight[t]].token # 0 /\ tokens[j].parent = reqs[flight[t]].token
         /\ tokens[j].tab = t)
            => tokens[j].lost

SignInInv ==
    /\ SignInTyping /\ Descent /\ Knowledge /\ Flights /\ Undelivered
    /\ JarIsNewest /\ NoRaceWithItself /\ R!HeirsOnlyByOverlap

\* A stamp has an heir, and none of the alarmed tab's own that came to it.
LEMMA AlarmsFollow == SignInInv => R!AlarmsHaveACause
<1> SUFFICES ASSUME SignInInv, NEW r \in DOMAIN reqs, reqs[r].phase = "alarm",
                    flight[reqs[r].tab] = r
             PROVE  LET i == reqs[r].token IN
                    \/ tokens[i].revoked
                    \/ \E j \in DOMAIN tokens :
                        tokens[j].parent = i /\ (tokens[j].lost \/ tokens[j].tab # reqs[r].tab)
  BY DEF R!AlarmsHaveACause
<1>1. DOMAIN reqs = 1 .. Len(reqs) /\ DOMAIN tokens = 1 .. Len(tokens) /\ Len(tokens) \in Nat
  BY DEF SignInInv, SignInTyping
<1>2. r \in 1 .. Len(reqs) /\ r # 0 /\ reqs[r] \in RequestRow
  BY <1>1 DEF SignInInv, SignInTyping
<1>3. PICK t \in Tabs : t = reqs[r].tab
  BY <1>2 DEF RequestRow
<1>4. PICK i : i = reqs[r].token
  OBVIOUS
<1>5. i \in 1 .. Len(tokens) /\ (tokens[i].rotated \/ tokens[i].revoked)
  BY <1>1, <1>2, <1>4 DEF SignInInv, Knowledge, RequestRow
<1>6. CASE tokens[i].rotated
  <2>1. PICK j \in 1 .. Len(tokens) : tokens[j].parent = i
    BY <1>5, <1>6 DEF SignInInv, Descent
  <2>2. tokens[j].tab = t => tokens[j].lost
    BY <1>2, <1>3, <1>4, <1>5, <2>1 DEF SignInInv, NoRaceWithItself
  <2>3. QED
    BY <1>1, <1>3, <1>4, <2>1, <2>2
<1>7. QED
  BY <1>4, <1>5, <1>6

\* The tokens only age: stamps stay, and nobody's parent or tab changes.
Aged ==
    /\ tokens' \in Seq(TokenRow) /\ Len(tokens') = Len(tokens)
    /\ \A i \in 1 .. Len(tokens) :
           /\ tokens'[i].parent = tokens[i].parent /\ tokens'[i].tab = tokens[i].tab
           /\ tokens'[i].read = tokens[i].read /\ tokens'[i].rotated = tokens[i].rotated
           /\ tokens[i].revoked => tokens'[i].revoked
           /\ tokens[i].lost => tokens'[i].lost

\* The requests only come to their end.
Ended ==
    /\ reqs' \in Seq(RequestRow) /\ Len(reqs') = Len(reqs)
    /\ \A r \in 1 .. Len(reqs) :
           /\ reqs'[r].kind = reqs[r].kind /\ reqs'[r].tab = reqs[r].tab
           /\ reqs'[r].token = reqs[r].token /\ reqs'[r].read = reqs[r].read
           /\ reqs'[r].child = reqs[r].child
           /\ \/ reqs'[r].phase = reqs[r].phase
              \/ reqs'[r].phase = "answered"
              \/ reqs'[r].phase = "committed" /\ reqs[r].kind = "logout"

\* Sequences that do not change, and one that changes in one place.
LEMMA TokensStay == ASSUME SignInTyping, tokens' = tokens PROVE Aged
BY DEF SignInTyping, Aged

LEMMA RequestsStay == ASSUME SignInTyping, reqs' = reqs PROVE Ended
BY DEF SignInTyping, Ended

LEMMA OneTokenAges ==
    ASSUME SignInTyping, NEW i \in 1 .. Len(tokens), NEW entry \in TokenRow,
           tokens' = [tokens EXCEPT ![i] = entry],
           entry.parent = tokens[i].parent, entry.tab = tokens[i].tab, entry.read = tokens[i].read,
           entry.rotated = tokens[i].rotated, tokens[i].revoked => entry.revoked,
           tokens[i].lost => entry.lost
    PROVE  Aged
<1>1. tokens \in Seq(TokenRow)
  BY DEF SignInTyping
<1>2. /\ tokens' \in Seq(TokenRow) /\ Len(tokens') = Len(tokens)
      /\ \A j \in 1 .. Len(tokens) : tokens'[j] = IF j = i THEN entry ELSE tokens[j]
  BY <1>1, ExceptSeq
<1>3. QED
  BY <1>2 DEF Aged

LEMMA OneRequestEnds ==
    ASSUME SignInTyping, NEW r \in 1 .. Len(reqs), NEW ending \in {"committed", "answered"},
           reqs' = [reqs EXCEPT ![r].phase = ending],
           ending = "committed" => reqs[r].kind = "logout"
    PROVE  Ended /\ reqs'[r].phase = ending
           /\ \A q \in 1 .. Len(reqs) : q # r => reqs'[q] = reqs[q]
<1>1. reqs \in Seq(RequestRow)
  BY DEF SignInTyping
<1>2. PICK entry : entry = [reqs[r] EXCEPT !.phase = ending]
  OBVIOUS
<1>3. reqs[r] \in RequestRow
  BY <1>1
<1>4. entry \in RequestRow /\ entry.phase = ending
      /\ entry.kind = reqs[r].kind /\ entry.tab = reqs[r].tab /\ entry.token = reqs[r].token
      /\ entry.read = reqs[r].read /\ entry.child = reqs[r].child
  BY <1>2, <1>3 DEF RequestRow
<1>5. reqs' = [reqs EXCEPT ![r] = entry]
  BY <1>2
<1>6. /\ reqs' \in Seq(RequestRow) /\ Len(reqs') = Len(reqs)
      /\ \A q \in 1 .. Len(reqs) : reqs'[q] = IF q = r THEN entry ELSE reqs[q]
  BY <1>1, <1>4, <1>5, ExceptSeq
<1>7. QED
  BY <1>4, <1>6 DEF Ended

\* A step that issues and sends nothing.
LEMMA NothingIssued ==
    ASSUME SignInInv, Aged, Ended, jar' \in 0 .. Len(tokens), flight' \in [Tabs -> Nat],
           \A t \in Tabs : flight'[t] \in {flight[t], 0},
           \A r \in 1 .. Len(reqs) : Carries(r)' => reqs[r].child # jar',
           JarIsNewest'
    PROVE  SignInInv'
<1>1. Len(tokens) \in Nat /\ Len(reqs) \in Nat
  BY DEF SignInInv, SignInTyping
<1>2. SignInTyping'
  BY DEF Aged, Ended, SignInTyping
<1>3. Descent'
  <2>1. \A j \in 1 .. Len(tokens) : tokens[j].parent \in 0 .. (j - 1)
    BY DEF SignInInv, Descent
  <2>2. \A j \in 1 .. Len(tokens) : tokens[j].parent # 0 => tokens[j].parent \in 1 .. Len(tokens)
    BY <1>1, <2>1
  <2>3. ASSUME NEW j \in 1 .. Len(tokens), tokens'[j].parent # 0
        PROVE  tokens'[tokens'[j].parent].rotated
    <3>1. PICK i \in 1 .. Len(tokens) : i = tokens[j].parent /\ i = tokens'[j].parent
      BY <2>2, <2>3 DEF Aged
    <3>2. tokens[i].rotated
      BY <2>3, <3>1 DEF SignInInv, Descent
    <3>3. QED
      BY <3>1, <3>2 DEF Aged
  <2>4. ASSUME NEW i \in 1 .. Len(tokens), tokens'[i].rotated
        PROVE  \E j \in 1 .. Len(tokens) : tokens'[j].parent = i
    <3>1. PICK j \in 1 .. Len(tokens) : tokens[j].parent = i
      BY <2>4 DEF SignInInv, Descent, Aged
    <3>2. QED
      BY <3>1 DEF Aged
  <2>5. QED
    BY <2>1, <2>3, <2>4 DEF Descent, Aged
<1>4. Knowledge'
  <2> SUFFICES ASSUME NEW r \in 1 .. Len(reqs)
               PROVE  /\ reqs'[r].token <= Len(tokens') /\ reqs'[r].read <= Len(tokens')
                      /\ reqs'[r].child <= Len(tokens')
                      /\ reqs'[r].phase \in {"passed", "alarm"} => reqs'[r].token # 0
                      /\ reqs'[r].phase = "passed" =>
                             \A j \in 1 .. Len(tokens') :
                                 tokens'[j].parent = reqs'[r].token => reqs'[r].read < j
                      /\ reqs'[r].phase = "alarm" =>
                             tokens'[reqs'[r].token].rotated \/ tokens'[reqs'[r].token].revoked
    BY DEF Knowledge, Ended
  <2>1. reqs[r] \in RequestRow
    BY DEF SignInInv, SignInTyping
  <2>2. reqs[r].phase \in {"passed", "alarm"} => reqs[r].token \in 1 .. Len(tokens)
    BY <1>1, <2>1 DEF SignInInv, Knowledge, RequestRow
  <2>3. reqs'[r].phase \in {"passed", "alarm"} => reqs'[r].phase = reqs[r].phase
    BY DEF Ended
  <2>4. QED
    BY <2>2, <2>3 DEF SignInInv, Knowledge, Aged, Ended
<1>5. Flights'
  BY DEF SignInInv, Flights, Ended
<1>6. \A r \in 1 .. Len(reqs) : Carries(r)' => Carries(r)
  BY DEF Carries, Ended
<1>7. Undelivered'
  BY <1>6, SMTT(30) DEF SignInInv, Undelivered, Aged, Ended
<1>8. NoRaceWithItself'
  <2> SUFFICES ASSUME NEW t \in Tabs, NEW j \in 1 .. Len(tokens'),
                      flight'[t] # 0, reqs'[flight'[t]].phase \in {"sent", "passed", "alarm"},
                      reqs'[flight'[t]].token # 0,
                      tokens'[j].parent = reqs'[flight'[t]].token, tokens'[j].tab = t
               PROVE  tokens'[j].lost
    BY DEF NoRaceWithItself
  <2>1. flight'[t] = flight[t] /\ flight[t] \in 1 .. Len(reqs)
    BY DEF SignInInv, Flights
  <2>2. reqs[flight[t]].phase \in {"sent", "passed", "alarm"}
    BY <2>1 DEF Ended
  <2>3. reqs[flight[t]].token = reqs'[flight'[t]].token
    BY <2>1 DEF Ended
  <2>4. QED
    BY <2>1, <2>2, <2>3 DEF SignInInv, NoRaceWithItself, Aged
<1>9. R!HeirsOnlyByOverlap'
  <2>1. DOMAIN tokens = 1 .. Len(tokens) /\ DOMAIN tokens' = 1 .. Len(tokens)
    BY <1>2 DEF SignInInv, SignInTyping, Aged
  <2>2. QED
    BY <2>1 DEF SignInInv, R!HeirsOnlyByOverlap, Aged
<1>10. QED
  BY <1>2, <1>3, <1>4, <1>5, <1>7, <1>8, <1>9 DEF SignInInv

\* The jar and the answers on their way stay.
LEMMA SameJar ==
    ASSUME SignInInv, Aged, Ended, jar' = jar, flight' = flight,
           \A r \in 1 .. Len(reqs) : Carries(r) => Carries(r)'
    PROVE  SignInInv'
<1>1. \A r \in 1 .. Len(reqs) : Carries(r)' => Carries(r)
  BY DEF Carries, Ended
<1>2. JarIsNewest'
  <2> SUFFICES ASSUME NEW j \in 1 .. Len(tokens), jar # 0, tokens'[j].parent = jar,
                      ~tokens'[j].lost
               PROVE  \E r \in 1 .. Len(reqs) :
                          /\ flight[tokens'[j].tab] = r /\ reqs'[r].kind = "refresh"
                          /\ reqs'[r].phase = "committed" /\ reqs'[r].child = j
    BY DEF JarIsNewest, Aged, Ended, Carries
  <2>1. tokens[j].parent = jar /\ ~tokens[j].lost /\ tokens'[j].tab = tokens[j].tab
    BY DEF Aged
  <2>2. PICK r \in 1 .. Len(reqs) :
            flight[tokens[j].tab] = r /\ Carries(r) /\ reqs[r].child = j
    BY <2>1 DEF SignInInv, JarIsNewest
  <2>3. reqs'[r].kind = "refresh" /\ reqs'[r].phase = "committed" /\ reqs'[r].child = j
    BY <2>2 DEF Ended, Carries
  <2>4. QED
    BY <2>1, <2>2, <2>3
<1>3. QED
  BY <1>1, <1>2, NothingIssued DEF SignInInv, SignInTyping, Undelivered

\* Action by action.
LEMMA RevokeKeeps == ASSUME SignInInv, NEW r \in DOMAIN reqs, R!Revoke(r) PROVE SignInInv'
<1>1. /\ tokens \in Seq(TokenRow) /\ DOMAIN tokens = 1 .. Len(tokens) /\ Len(tokens) \in Nat
      /\ r \in 1 .. Len(reqs)
  BY DEF SignInInv, SignInTyping
<1>2. PICK family : tokens' = [j \in 1 .. Len(tokens) |->
                    IF reqs[r].token # 0 /\ tokens[j].family = family
                    THEN [tokens[j] EXCEPT !.revoked = TRUE] ELSE tokens[j]]
  BY <1>1 DEF R!Revoke
<1>3. \A j \in 1 .. Len(tokens) :
          /\ tokens[j] \in TokenRow /\ tokens'[j] \in TokenRow
          /\ tokens'[j].parent = tokens[j].parent /\ tokens'[j].tab = tokens[j].tab
          /\ tokens'[j].read = tokens[j].read /\ tokens'[j].rotated = tokens[j].rotated
          /\ tokens[j].revoked => tokens'[j].revoked
          /\ tokens[j].lost => tokens'[j].lost
  <2> TAKE j \in 1 .. Len(tokens)
  <2>1. tokens[j] \in TokenRow
    BY <1>1
  <2>2. CASE tokens'[j] = tokens[j]
    BY <2>1, <2>2
  <2>3. CASE tokens'[j] = [tokens[j] EXCEPT !.revoked = TRUE]
    BY <2>1, <2>3 DEF TokenRow
  <2>4. QED
    BY <1>2, <2>2, <2>3
<1>4. tokens' \in [1 .. Len(tokens) -> TokenRow]
  BY <1>2, <1>3
<1>5. tokens' \in Seq(TokenRow)
  BY <1>1, <1>4, SeqDef
<1>6. Len(tokens') = Len(tokens)
  BY <1>1, <1>4, <1>5, LenProperties
<1>7. Aged
  BY <1>3, <1>5, <1>6 DEF Aged
<1>8. Ended /\ \A q \in 1 .. Len(reqs) : q # r => reqs'[q] = reqs[q]
  BY <1>1, OneRequestEnds DEF R!Revoke, SignInInv
<1>9. \A q \in 1 .. Len(reqs) : Carries(q) => Carries(q)'
  BY <1>8 DEF R!Revoke, Carries
<1>10. QED
  BY <1>7, <1>8, <1>9, SameJar DEF R!Revoke, R!client

LEMMA ExpiryKeeps ==
    ASSUME SignInInv, NEW i \in DOMAIN tokens, R!TokenExpires(i) PROVE SignInInv'
<1>1. tokens \in Seq(TokenRow) /\ i \in 1 .. Len(tokens) /\ tokens[i] \in TokenRow
  BY DEF SignInInv, SignInTyping
<1>2. PICK entry : entry = [tokens[i] EXCEPT !.expired = TRUE]
  OBVIOUS
<1>3. /\ entry \in TokenRow /\ tokens' = [tokens EXCEPT ![i] = entry]
      /\ entry.parent = tokens[i].parent /\ entry.tab = tokens[i].tab /\ entry.read = tokens[i].read
      /\ entry.rotated = tokens[i].rotated /\ entry.revoked = tokens[i].revoked
      /\ entry.lost = tokens[i].lost
  BY <1>1, <1>2 DEF R!TokenExpires, TokenRow
<1>4. Aged
  BY <1>1, <1>3, OneTokenAges DEF SignInInv
<1>5. Ended /\ jar' = jar /\ flight' = flight /\ \A q \in 1 .. Len(reqs) : Carries(q) => Carries(q)'
  BY RequestsStay DEF R!TokenExpires, R!client, SignInInv, Carries
<1>6. QED
  BY <1>4, <1>5, SameJar

LEMMA LoseKeeps == ASSUME SignInInv, NEW t \in Tabs, R!Lose(t) PROVE SignInInv'
<1>1. PICK r \in 1 .. Len(reqs) : r = flight[t] /\ reqs[r].tab = t /\ reqs[r].kind = "refresh"
  BY DEF R!Lose, SignInInv, Flights
<1>2. reqs' = reqs /\ jar' = jar /\ flight' = [flight EXCEPT ![t] = 0]
  BY DEF R!Lose
<1>3. Ended
  BY <1>2, RequestsStay DEF SignInInv
<1>4. /\ tokens \in Seq(TokenRow) /\ Len(tokens) \in Nat /\ reqs[r] \in RequestRow
      /\ flight \in [Tabs -> Nat] /\ jar \in 0 .. Len(tokens)
  BY DEF SignInInv, SignInTyping
<1>5. PICK c \in Nat : c = reqs[r].child
  BY <1>4 DEF RequestRow
<1>6. Aged /\ (c # 0 => tokens'[c].lost)
  <2>1. CASE c = 0
    BY <1>1, <1>5, <2>1, TokensStay DEF R!Lose, SignInInv
  <2>2. CASE c # 0
    <3>1. c \in 1 .. Len(tokens)
      BY <1>4, <1>5, <2>2 DEF SignInInv, Knowledge
    <3>2. tokens[c] \in TokenRow
      BY <1>4, <3>1
    <3>3. PICK entry : entry = [tokens[c] EXCEPT !.lost = TRUE]
      OBVIOUS
    <3>4. /\ entry \in TokenRow /\ entry.lost
          /\ entry.parent = tokens[c].parent /\ entry.tab = tokens[c].tab
          /\ entry.read = tokens[c].read
          /\ entry.rotated = tokens[c].rotated /\ entry.revoked = tokens[c].revoked
      BY <3>2, <3>3 DEF TokenRow
    <3>5. tokens' = [tokens EXCEPT ![c] = entry]
      BY <1>1, <1>5, <2>2, <3>3 DEF R!Lose
    <3>6. Aged
      BY <3>1, <3>4, <3>5, OneTokenAges DEF SignInInv
    <3>7. tokens'[c] = entry
      BY <1>4, <3>1, <3>4, <3>5, ExceptSeq
    <3>8. QED
      BY <3>4, <3>6, <3>7
  <2>3. QED
    BY <2>1, <2>2
<1>7. JarIsNewest'
  <2> SUFFICES ASSUME NEW j \in 1 .. Len(tokens), jar # 0, tokens'[j].parent = jar,
                      ~tokens'[j].lost
               PROVE  \E q \in 1 .. Len(reqs) :
                          /\ flight'[tokens'[j].tab] = q /\ Carries(q) /\ reqs[q].child = j
    BY <1>2, <1>6 DEF JarIsNewest, Aged, Carries
  <2>1. tokens[j].parent = jar /\ ~tokens[j].lost /\ tokens'[j].tab = tokens[j].tab
    BY <1>6 DEF Aged
  <2>2. PICK q \in 1 .. Len(reqs) :
            flight[tokens[j].tab] = q /\ Carries(q) /\ reqs[q].child = j
    BY <2>1 DEF SignInInv, JarIsNewest
  <2>3. j # 0
    BY <1>4
  <2>4. tokens[j].tab # t
    BY <1>1, <1>5, <1>6, <2>2, <2>3
  <2>5. tokens[j].tab \in Tabs
    <3>1. tokens[j] \in TokenRow
      BY <1>4
    <3>2. QED
      BY <3>1 DEF TokenRow
  <2>6. QED
    BY <1>2, <1>4, <2>1, <2>2, <2>4, <2>5
<1>8. \A q \in 1 .. Len(reqs) : Carries(q)' => reqs[q].child # jar'
  BY <1>2 DEF SignInInv, Undelivered, Carries
<1>9. QED
  BY <1>2, <1>3, <1>4, <1>6, <1>7, <1>8, NothingIssued

LEMMA RefreshAnsweredKeeps ==
    ASSUME SignInInv, NEW r \in DOMAIN reqs, R!RefreshAnswered(r) PROVE SignInInv'
<1>1. PICK t \in Tabs : t = reqs[r].tab /\ flight[t] = r
  <2>1. reqs[r] \in RequestRow
    BY DEF SignInInv, SignInTyping
  <2>2. QED
    BY <2>1 DEF R!RefreshAnswered, RequestRow
<1>2. /\ tokens \in Seq(TokenRow) /\ Len(tokens) \in Nat /\ r \in 1 .. Len(reqs)
      /\ flight \in [Tabs -> Nat] /\ jar \in 0 .. Len(tokens)
  BY DEF SignInInv, SignInTyping
<1>3. tokens' = tokens /\ flight' = [flight EXCEPT ![t] = 0]
  BY <1>1 DEF R!RefreshAnswered
<1>4. Aged
  BY <1>3, TokensStay DEF SignInInv
<1>5. Ended /\ reqs'[r].phase = "answered" /\ \A q \in 1 .. Len(reqs) : q # r => reqs'[q] = reqs[q]
  <2>1. reqs' = [reqs EXCEPT ![r].phase = "answered"]
    BY DEF R!RefreshAnswered, R!Answered
  <2>2. QED
    BY <1>2, <2>1, OneRequestEnds DEF SignInInv
<1>6. \A q \in 1 .. Len(reqs) : Carries(q)' => Carries(q) /\ q # r
  BY <1>5 DEF Carries
<1>7. \A q \in 1 .. Len(reqs) : Carries(q) /\ q # r => Carries(q)' /\ reqs'[q].child = reqs[q].child
  BY <1>5 DEF Carries
<1>8. CASE Carries(r) /\ jar' = reqs[r].child
  <2>1. \A j \in 1 .. Len(tokens) : tokens[j].parent # jar'
    BY <1>2, <1>8 DEF SignInInv, Undelivered
  <2>2. JarIsNewest'
    BY <1>3, <2>1 DEF JarIsNewest
  <2>3. \A q \in 1 .. Len(reqs) : Carries(q)' => reqs[q].child # jar'
    <3> TAKE q \in 1 .. Len(reqs)
    <3>1. CASE Carries(q) /\ q # r
      BY <1>2, <1>8, <3>1 DEF SignInInv, Undelivered
    <3>2. QED
      BY <1>6, <3>1
  <2>4. jar' \in 0 .. Len(tokens)
    <3>1. reqs[r] \in RequestRow
      BY DEF SignInInv, SignInTyping
    <3>2. QED
      BY <1>2, <1>8, <3>1 DEF SignInInv, Knowledge, RequestRow
  <2>5. QED
    BY <1>2, <1>3, <1>4, <1>5, <2>2, <2>3, <2>4, NothingIssued
<1>9. CASE ~Carries(r) /\ jar' = jar
  <2>1. \A q \in 1 .. Len(reqs) : Carries(q)' => reqs[q].child # jar'
    BY <1>6, <1>9 DEF SignInInv, Undelivered
  <2>2. JarIsNewest'
    <3> SUFFICES ASSUME NEW j \in 1 .. Len(tokens), jar # 0, tokens[j].parent = jar,
                        ~tokens[j].lost
                 PROVE  \E q \in 1 .. Len(reqs) :
                            /\ flight'[tokens[j].tab] = q /\ reqs'[q].kind = "refresh"
                            /\ reqs'[q].phase = "committed" /\ reqs'[q].child = j
      BY <1>3, <1>5, <1>9 DEF JarIsNewest, Ended, Carries
    <3>1. PICK q \in 1 .. Len(reqs) :
              flight[tokens[j].tab] = q /\ Carries(q) /\ reqs[q].child = j
      BY DEF SignInInv, JarIsNewest
    <3>2. q # r /\ tokens[j].tab # t
      BY <1>1, <1>9, <3>1
    <3>3. tokens[j].tab \in Tabs
      <4>1. tokens[j] \in TokenRow
        BY <1>2
      <4>2. QED
        BY <4>1 DEF TokenRow
    <3>4. QED
      BY <1>2, <1>3, <1>5, <3>1, <3>2, <3>3 DEF Carries
  <2>3. QED
    BY <1>2, <1>3, <1>4, <1>5, <1>9, <2>1, <2>2, NothingIssued
<1>10. QED
  BY <1>8, <1>9 DEF R!RefreshAnswered, Carries

LEMMA LogoutAnsweredKeeps ==
    ASSUME SignInInv, NEW r \in DOMAIN reqs, R!LogoutAnswered(r) PROVE SignInInv'
<1>1. /\ r \in 1 .. Len(reqs) /\ Len(tokens) \in Nat /\ flight \in [Tabs -> Nat]
  BY DEF SignInInv, SignInTyping
<1>2. tokens' = tokens /\ flight' = flight /\ jar' = 0
      /\ reqs' = [reqs EXCEPT ![r].phase = "answered"]
  BY DEF R!LogoutAnswered, R!Answered
<1>3. Aged
  BY <1>2, TokensStay DEF SignInInv
<1>4. Ended
  BY <1>1, <1>2, OneRequestEnds DEF SignInInv
<1>5. JarIsNewest'
  BY <1>2 DEF JarIsNewest
<1>6. \A q \in 1 .. Len(reqs) : Carries(q)' => reqs[q].child # jar'
  BY <1>2, <1>4 DEF SignInInv, Undelivered, Carries, Ended
<1>7. QED
  BY <1>1, <1>2, <1>3, <1>4, <1>5, <1>6, NothingIssued

LEMMA ReadKeeps == ASSUME SignInInv, NEW r \in DOMAIN reqs, R!Read(r) PROVE SignInInv'
<1>1. /\ tokens \in Seq(TokenRow) /\ DOMAIN tokens = 1 .. Len(tokens) /\ Len(tokens) \in Nat
      /\ reqs \in Seq(RequestRow) /\ r \in 1 .. Len(reqs) /\ reqs[r] \in RequestRow
  BY DEF SignInInv, SignInTyping
<1>2. tokens' = tokens /\ jar' = jar /\ flight' = flight /\ status' = status
  BY DEF R!Read, R!client
<1>3. PICK i \in 0 .. Len(tokens) : i = reqs[r].token
  BY <1>1 DEF SignInInv, Knowledge, RequestRow
<1>4. PICK x : x = IF R!Usable(i) /\ beta THEN "passed"
                   ELSE IF i # 0 /\ (tokens[i].rotated \/ tokens[i].revoked)
                        THEN "alarm" ELSE "refused"
  OBVIOUS
<1>5. /\ x \in {"passed", "alarm", "refused"}
      /\ x \in {"passed", "alarm"} => i # 0
      /\ x = "passed" => ~tokens[i].rotated
      /\ x = "alarm" => tokens[i].rotated \/ tokens[i].revoked
  BY <1>4 DEF R!Usable
<1>6. PICK entry : entry = [reqs[r] EXCEPT !.read = Len(tokens), !.phase = x]
  OBVIOUS
<1>7. /\ entry \in RequestRow /\ entry.phase = x /\ entry.read = Len(tokens)
      /\ entry.kind = reqs[r].kind /\ entry.tab = reqs[r].tab /\ entry.token = i
      /\ entry.child = reqs[r].child
  BY <1>1, <1>3, <1>5, <1>6 DEF RequestRow
<1>8. reqs' = [reqs EXCEPT ![r] = entry]
  BY <1>3, <1>4, <1>6 DEF R!Read
<1>9. /\ reqs' \in Seq(RequestRow) /\ Len(reqs') = Len(reqs)
      /\ \A q \in 1 .. Len(reqs) : reqs'[q] = IF q = r THEN entry ELSE reqs[q]
  BY <1>1, <1>7, <1>8, ExceptSeq
<1>10. \A q \in 1 .. Len(reqs) :
          /\ reqs'[q].kind = reqs[q].kind /\ reqs'[q].tab = reqs[q].tab
          /\ reqs'[q].token = reqs[q].token /\ reqs'[q].child = reqs[q].child
          /\ Carries(q)' <=> Carries(q)
  BY <1>3, <1>5, <1>7, <1>9 DEF R!Read, Carries
<1>11. SignInTyping'
  BY <1>2, <1>9 DEF SignInInv, SignInTyping
<1>12. Descent' /\ R!HeirsOnlyByOverlap'
  BY <1>2 DEF SignInInv, Descent, R!HeirsOnlyByOverlap
<1>13. Knowledge'
  <2>1. x = "passed" => \A j \in 1 .. Len(tokens) : tokens[j].parent # i
    BY <1>3, <1>5 DEF SignInInv, Descent
  <2>2. ASSUME NEW q \in 1 .. Len(reqs), q # r
        PROVE  reqs'[q] = reqs[q]
    BY <1>9, <2>2
  <2>3. reqs'[r] = entry
    BY <1>1, <1>9
  <2>4. entry.child <= Len(tokens)
    BY <1>1, <1>7 DEF SignInInv, Knowledge
  <2>5. i <= Len(tokens)
    BY <1>3, <1>1
  <2> SUFFICES ASSUME NEW q \in 1 .. Len(reqs)
               PROVE  /\ reqs'[q].token <= Len(tokens) /\ reqs'[q].read <= Len(tokens)
                      /\ reqs'[q].child <= Len(tokens)
                      /\ reqs'[q].phase \in {"passed", "alarm"} => reqs'[q].token # 0
                      /\ reqs'[q].phase = "passed" =>
                             \A j \in 1 .. Len(tokens) :
                                 tokens[j].parent = reqs'[q].token => reqs'[q].read < j
                      /\ reqs'[q].phase = "alarm" =>
                             tokens[reqs'[q].token].rotated \/ tokens[reqs'[q].token].revoked
    BY <1>2, <1>9 DEF Knowledge
  <2>6. CASE q = r
    BY <1>1, <1>5, <1>7, <2>1, <2>3, <2>4, <2>5, <2>6
  <2>7. CASE q # r
    BY <2>2, <2>7 DEF SignInInv, Knowledge
  <2>8. QED
    BY <2>6, <2>7
<1>14. Flights'
  BY <1>2, <1>9, <1>10 DEF SignInInv, Flights
<1>15. Undelivered'
  BY <1>2, <1>9, <1>10 DEF SignInInv, Undelivered
<1>16. JarIsNewest'
  <2> SUFFICES ASSUME NEW j \in 1 .. Len(tokens), jar # 0, tokens[j].parent = jar,
                      ~tokens[j].lost
               PROVE  \E q \in 1 .. Len(reqs) :
                          flight[tokens[j].tab] = q /\ Carries(q)' /\ reqs'[q].child = j
    BY <1>2, <1>9 DEF JarIsNewest, Carries
  <2>1. PICK q \in 1 .. Len(reqs) :
            flight[tokens[j].tab] = q /\ Carries(q) /\ reqs[q].child = j
    BY DEF SignInInv, JarIsNewest
  <2>2. QED
    BY <1>10, <2>1
<1>17. NoRaceWithItself'
  <2> SUFFICES ASSUME NEW t \in Tabs, NEW j \in 1 .. Len(tokens),
                      flight[t] # 0, reqs'[flight[t]].phase \in {"sent", "passed", "alarm"},
                      reqs'[flight[t]].token # 0,
                      tokens[j].parent = reqs'[flight[t]].token, tokens[j].tab = t
               PROVE  tokens[j].lost
    BY <1>2 DEF NoRaceWithItself
  <2>1. flight[t] \in 1 .. Len(reqs)
    BY DEF SignInInv, Flights
  <2>2. reqs[flight[t]].phase \in {"sent", "passed", "alarm"}
    BY <1>9, <2>1 DEF R!Read
  <2>3. QED
    BY <1>10, <2>1, <2>2 DEF SignInInv, NoRaceWithItself
<1>18. QED
  BY <1>11, <1>12, <1>13, <1>14, <1>15, <1>16, <1>17 DEF SignInInv

LEMMA SendKeeps ==
    ASSUME SignInInv, NEW t \in Tabs, NEW kind \in {"refresh", "logout"}, R!Send(kind, t),
           tokens' = tokens, jar' = jar,
           \/ flight' = flight
           \/ /\ kind = "refresh" /\ flight[t] = 0
              /\ flight' = [flight EXCEPT ![t] = Len(reqs) + 1]
    PROVE  SignInInv'
<1>a. PICK entry : entry = [kind |-> kind, tab |-> t, token |-> jar, phase |-> "sent",
                      read |-> 0, child |-> 0]
  OBVIOUS
<1>b. PICK last : last = Len(reqs) + 1
  OBVIOUS
<1>1. /\ tokens \in Seq(TokenRow) /\ Len(tokens) \in Nat
      /\ reqs \in Seq(RequestRow) /\ Len(reqs) \in Nat
      /\ jar \in 0 .. Len(tokens) /\ flight \in [Tabs -> Nat]
  BY DEF SignInInv, SignInTyping
<1>2. entry \in RequestRow
  BY <1>1, <1>a DEF RequestRow
<1>3. reqs' = Append(reqs, entry)
  BY <1>a DEF R!Send
<1>4. /\ reqs' \in Seq(RequestRow) /\ Len(reqs') = last /\ reqs'[last] = entry
      /\ \A q \in 1 .. Len(reqs) : reqs'[q] = reqs[q]
  BY <1>1, <1>2, <1>3, <1>b, AppendProperties
<1>5. \A q \in 1 .. last : q \in 1 .. Len(reqs) \/ q = last
  BY <1>1, <1>b
<1>6. last \in Nat /\ last # 0 /\ last \notin 1 .. Len(reqs) /\ last \in 1 .. last
      /\ \A q \in 1 .. Len(reqs) : q \in 1 .. last
  BY <1>1, <1>b
<1>7. /\ entry.token = jar /\ entry.read = 0 /\ entry.child = 0 /\ entry.phase = "sent"
      /\ entry.tab = t /\ entry.kind = kind
  BY <1>a
<1>8. SignInTyping'
  BY <1>1, <1>4, <1>6, SMTT(30) DEF SignInTyping
<1>9. Descent' /\ R!HeirsOnlyByOverlap'
  BY DEF SignInInv, Descent, R!HeirsOnlyByOverlap
<1>10. Knowledge'
  <2> SUFFICES ASSUME NEW q \in 1 .. last
               PROVE  /\ reqs'[q].token <= Len(tokens) /\ reqs'[q].read <= Len(tokens)
                      /\ reqs'[q].child <= Len(tokens)
                      /\ reqs'[q].phase \in {"passed", "alarm"} => reqs'[q].token # 0
                      /\ reqs'[q].phase = "passed" =>
                             \A j \in 1 .. Len(tokens) :
                                 tokens[j].parent = reqs'[q].token => reqs'[q].read < j
                      /\ reqs'[q].phase = "alarm" =>
                             tokens[reqs'[q].token].rotated \/ tokens[reqs'[q].token].revoked
    BY <1>4 DEF Knowledge
  <2>1. CASE q = last
    BY <1>1, <1>4, <1>7, <2>1
  <2>2. CASE q \in 1 .. Len(reqs)
    BY <1>4, <2>2 DEF SignInInv, Knowledge
  <2>3. QED
    BY <1>5, <2>1, <2>2
<1>11. \A u \in Tabs : flight'[u] # flight[u] => u = t /\ kind = "refresh" /\ flight'[t] = last
                                                 /\ flight[t] = 0
  BY <1>1, <1>b
<1>12. Flights'
  <2> SUFFICES ASSUME NEW u \in Tabs, flight'[u] # 0
               PROVE  /\ flight'[u] \in 1 .. last
                      /\ reqs'[flight'[u]].tab = u /\ reqs'[flight'[u]].kind = "refresh"
    BY <1>4 DEF Flights
  <2>1. CASE flight'[u] = flight[u]
    BY <1>4, <1>6, <2>1 DEF SignInInv, Flights
  <2>2. CASE flight'[u] # flight[u]
    BY <1>4, <1>6, <1>7, <1>11, <2>2
  <2>3. QED
    BY <2>1, <2>2
<1>13. ~Carries(last)' /\ \A q \in 1 .. Len(reqs) : Carries(q)' <=> Carries(q)
  BY <1>4, <1>7 DEF Carries
<1>14. Undelivered'
  <2>1. ASSUME NEW r \in 1 .. last, Carries(r)'
        PROVE  /\ reqs'[r].child # 0 /\ reqs'[r].child # jar
               /\ \A q \in 1 .. last : reqs'[q].token # reqs'[r].child
               /\ \A j \in 1 .. Len(tokens) : tokens[j].parent # reqs'[r].child
    <3>1. r \in 1 .. Len(reqs) /\ Carries(r) /\ reqs'[r] = reqs[r]
      BY <1>4, <1>5, <1>13, <2>1
    <3>2. QED
      BY <1>4, <1>5, <1>7, <3>1 DEF SignInInv, Undelivered
  <2>2. ASSUME NEW q \in 1 .. last, NEW r \in 1 .. last, q # r, reqs'[r].child # 0
        PROVE  reqs'[q].child # reqs'[r].child
    BY <1>4, <1>5, <1>7, <2>2 DEF SignInInv, Undelivered
  <2>3. QED
    BY <1>4, <2>1, <2>2 DEF Undelivered
<1>15. \A j \in 1 .. Len(tokens) : tokens[j].tab \in Tabs
  <2>1. \A j \in 1 .. Len(tokens) : tokens[j] \in TokenRow
    BY <1>1
  <2>2. QED
    BY <2>1 DEF TokenRow
<1>16. JarIsNewest'
  <2> SUFFICES ASSUME NEW j \in 1 .. Len(tokens), jar # 0, tokens[j].parent = jar,
                      ~tokens[j].lost
               PROVE  \E q \in 1 .. last :
                          flight'[tokens[j].tab] = q /\ Carries(q)' /\ reqs'[q].child = j
    BY <1>4 DEF JarIsNewest, Carries
  <2>1. PICK q \in 1 .. Len(reqs) :
            flight[tokens[j].tab] = q /\ Carries(q) /\ reqs[q].child = j
    BY DEF SignInInv, JarIsNewest
  <2>2. flight'[tokens[j].tab] = q
    BY <1>11, <1>15, <2>1
  <2>3. QED
    BY <1>4, <1>6, <1>13, <2>1, <2>2
<1>17. NoRaceWithItself'
  <2> SUFFICES ASSUME NEW u \in Tabs, NEW j \in 1 .. Len(tokens),
                      flight'[u] # 0, reqs'[flight'[u]].phase \in {"sent", "passed", "alarm"},
                      reqs'[flight'[u]].token # 0,
                      tokens[j].parent = reqs'[flight'[u]].token, tokens[j].tab = u
               PROVE  tokens[j].lost
    BY DEF NoRaceWithItself
  <2>1. CASE flight'[u] = flight[u]
    <3>1. flight[u] \in 1 .. Len(reqs)
      BY <2>1 DEF SignInInv, Flights
    <3>2. QED
      BY <1>4, <2>1, <3>1 DEF SignInInv, NoRaceWithItself
  <2>2. CASE flight'[u] # flight[u]
    <3>1. u = t /\ flight[t] = 0 /\ reqs'[flight'[u]] = entry
      BY <1>4, <1>11, <2>2
    <3>2. tokens[j].parent = jar /\ jar # 0
      BY <1>7, <3>1
    <3>3. flight[tokens[j].tab] \notin 1 .. Len(reqs)
      BY <3>1
    <3>4. QED
      BY <3>2, <3>3 DEF SignInInv, JarIsNewest
  <2>3. QED
    BY <2>1, <2>2
<1>18. QED
  BY <1>8, <1>9, <1>10, <1>12, <1>14, <1>16, <1>17 DEF SignInInv

LEMMA LoginKeeps == ASSUME SignInInv, NEW t \in Tabs, R!Login(t) PROVE SignInInv'
<1>1. PICK n \in Nat : n = Len(tokens) /\ n + 1 = Len(tokens) + 1
  BY DEF SignInInv, SignInTyping
<1>2. PICK entry : entry = R!Token(0, n + 1, t, n)
  OBVIOUS
<1>3. entry \in TokenRow /\ entry.parent = 0 /\ ~entry.rotated
  BY <1>2 DEF R!Token, TokenRow
<1>4. /\ tokens \in Seq(TokenRow) /\ reqs \in Seq(RequestRow) /\ Len(reqs) \in Nat
      /\ flight \in [Tabs -> Nat]
  BY DEF SignInInv, SignInTyping
<1>5. /\ tokens' = Append(tokens, entry) /\ jar' = n + 1
      /\ flight' = flight /\ reqs' = reqs
  BY <1>1, <1>2 DEF R!Login
<1>6. /\ tokens' \in Seq(TokenRow) /\ Len(tokens') = n + 1 /\ tokens'[n + 1] = entry
      /\ \A j \in 1 .. n : tokens'[j] = tokens[j]
      /\ DOMAIN tokens' = 1 .. n + 1 /\ DOMAIN tokens = 1 .. n
  BY <1>1, <1>3, <1>4, <1>5, AppendProperties, LenProperties
<1>7. \A j \in 1 .. n + 1 : j \in 1 .. n \/ j = n + 1
  OBVIOUS
<1>8. \A r \in 1 .. Len(reqs) :
          /\ reqs[r] \in RequestRow /\ reqs[r].token \in 0 .. n
          /\ reqs[r].child \in 0 .. n /\ reqs[r].read \in 0 .. n
  <2> TAKE r \in 1 .. Len(reqs)
  <2>1. reqs[r] \in RequestRow
    BY <1>4
  <2>2. reqs[r].token \in Nat /\ reqs[r].child \in Nat /\ reqs[r].read \in Nat
    BY <2>1 DEF RequestRow
  <2>3. reqs[r].token <= n /\ reqs[r].child <= n /\ reqs[r].read <= n
    BY <1>1 DEF SignInInv, Knowledge
  <2>4. QED
    BY <2>1, <2>2, <2>3
<1>9. \A j \in 1 .. n : tokens[j].parent \in 0 .. n /\ tokens[j].parent \in 0 .. (j - 1)
  BY <1>1 DEF SignInInv, Descent
<1>10. \A r \in 1 .. Len(reqs) : Carries(r)' <=> Carries(r)
  BY <1>5 DEF Carries
<1>11. SignInTyping'
  BY <1>1, <1>4, <1>5, <1>6 DEF SignInTyping
<1>12. Descent'
  <2>1. ASSUME NEW j \in 1 .. n + 1
        PROVE  /\ tokens'[j].parent \in 0 .. (j - 1)
               /\ tokens'[j].parent # 0 => tokens'[tokens'[j].parent].rotated
    <3>1. CASE j = n + 1
      BY <1>3, <1>6, <3>1
    <3>2. CASE j \in 1 .. n
      <4>1. tokens[j].parent # 0 => tokens[j].parent \in 1 .. n
        BY <1>9, <3>2
      <4>2. QED
        BY <1>1, <1>6, <1>9, <3>2, <4>1 DEF SignInInv, Descent
    <3>3. QED
      BY <1>7, <3>1, <3>2
  <2>2. ASSUME NEW i \in 1 .. n + 1, tokens'[i].rotated
        PROVE  \E j \in 1 .. n + 1 : tokens'[j].parent = i
    <3>1. i \in 1 .. n /\ tokens[i].rotated
      BY <1>3, <1>6, <1>7, <2>2
    <3>2. PICK j \in 1 .. n : tokens[j].parent = i
      BY <1>1, <3>1 DEF SignInInv, Descent
    <3>3. QED
      BY <1>6, <3>2
  <2>3. QED
    BY <1>6, <2>1, <2>2 DEF Descent
<1>13. Knowledge'
  <2> SUFFICES ASSUME NEW q \in 1 .. Len(reqs)
               PROVE  /\ reqs[q].token <= n + 1 /\ reqs[q].read <= n + 1
                      /\ reqs[q].child <= n + 1
                      /\ reqs[q].phase \in {"passed", "alarm"} => reqs[q].token # 0
                      /\ reqs[q].phase = "passed" =>
                             \A j \in 1 .. n + 1 :
                                 tokens'[j].parent = reqs[q].token => reqs[q].read < j
                      /\ reqs[q].phase = "alarm" =>
                             tokens'[reqs[q].token].rotated \/ tokens'[reqs[q].token].revoked
    BY <1>5, <1>6 DEF Knowledge
  <2>1. reqs[q].phase \in {"passed", "alarm"} => reqs[q].token \in 1 .. n
    BY <1>8 DEF SignInInv, Knowledge
  <2>2. ASSUME reqs[q].phase = "passed", NEW j \in 1 .. n + 1, tokens'[j].parent = reqs[q].token
        PROVE  reqs[q].read < j
    BY <1>1, <1>3, <1>6, <1>7, <2>1, <2>2 DEF SignInInv, Knowledge
  <2>3. QED
    BY <1>6, <1>8, <2>1, <2>2 DEF SignInInv, Knowledge
<1>14. Flights'
  BY <1>5 DEF SignInInv, Flights
<1>15. Undelivered'
  <2>1. ASSUME NEW r \in 1 .. Len(reqs), Carries(r)
        PROVE  /\ reqs[r].child # 0 /\ reqs[r].child # n + 1
               /\ \A q \in 1 .. Len(reqs) : reqs[q].token # reqs[r].child
               /\ \A j \in 1 .. n + 1 : tokens'[j].parent # reqs[r].child
    <3>1. reqs[r].child # 0 /\ reqs[r].child # n + 1
      BY <1>8, <2>1 DEF SignInInv, Undelivered
    <3>2. \A q \in 1 .. Len(reqs) : reqs[q].token # reqs[r].child
      BY <2>1 DEF SignInInv, Undelivered
    <3>3. \A j \in 1 .. n : tokens[j].parent # reqs[r].child
      BY <1>1, <2>1 DEF SignInInv, Undelivered
    <3>4. QED
      BY <1>3, <1>6, <1>7, <3>1, <3>2, <3>3
  <2>2. QED
    BY <1>5, <1>6, <1>10, <2>1 DEF SignInInv, Undelivered
<1>16. JarIsNewest'
  <2>1. \A j \in 1 .. n + 1 : tokens'[j].parent # n + 1
    BY <1>3, <1>6, <1>7, <1>9
  <2>2. QED
    BY <1>5, <1>6, <2>1 DEF JarIsNewest
<1>17. NoRaceWithItself'
  BY <1>1, <1>3, <1>5, <1>6, <1>7 DEF SignInInv, NoRaceWithItself
<1>18. R!HeirsOnlyByOverlap'
  <2> SUFFICES ASSUME NEW i \in 1 .. n + 1, NEW j \in 1 .. n + 1,
                      i < j, tokens'[i].parent = tokens'[j].parent, tokens'[i].parent # 0
               PROVE  tokens'[j].read < i
    BY <1>6 DEF R!HeirsOnlyByOverlap
  <2>1. i \in 1 .. n /\ j \in 1 .. n
    BY <1>3, <1>6, <1>7
  <2>2. QED
    BY <1>6, <2>1 DEF SignInInv, R!HeirsOnlyByOverlap
<1>19. QED
  BY <1>11, <1>12, <1>13, <1>14, <1>15, <1>16, <1>17, <1>18 DEF SignInInv

LEMMA RotateKeeps == ASSUME SignInInv, NEW r \in DOMAIN reqs, R!Rotate(r) PROVE SignInInv'
<1>1. PICK n \in Nat : n = Len(tokens)
  BY DEF SignInInv, SignInTyping
<1>2. /\ tokens \in Seq(TokenRow) /\ reqs \in Seq(RequestRow) /\ Len(reqs) \in Nat
      /\ r \in 1 .. Len(reqs) /\ flight \in [Tabs -> Nat] /\ jar \in 0 .. n
      /\ DOMAIN tokens = 1 .. n
  BY <1>1 DEF SignInInv, SignInTyping
<1>3. \A q \in 1 .. Len(reqs) :
          /\ reqs[q] \in RequestRow /\ reqs[q].token \in 0 .. n
          /\ reqs[q].child \in 0 .. n /\ reqs[q].read \in 0 .. n
  <2> TAKE q \in 1 .. Len(reqs)
  <2>1. reqs[q] \in RequestRow
    BY <1>2
  <2>2. reqs[q].token \in Nat /\ reqs[q].child \in Nat /\ reqs[q].read \in Nat
    BY <2>1 DEF RequestRow
  <2>3. reqs[q].token <= n /\ reqs[q].child <= n /\ reqs[q].read <= n
    BY <1>1 DEF SignInInv, Knowledge
  <2>4. QED
    BY <2>1, <2>2, <2>3
<1>4. \A j \in 1 .. n : /\ tokens[j] \in TokenRow /\ tokens[j].parent \in 0 .. n
                        /\ tokens[j].parent \in 0 .. (j - 1)
  BY <1>1, <1>2 DEF SignInInv, Descent
<1>5. PICK p \in 1 .. n : p = reqs[r].token
  BY <1>2, <1>3 DEF R!Rotate, SignInInv, Knowledge
<1>6. PICK t \in Tabs : t = reqs[r].tab
  BY <1>2, <1>3 DEF RequestRow
<1>7. PICK spent : spent = [tokens[p] EXCEPT !.rotated = TRUE]
  OBVIOUS
<1>8. /\ spent \in TokenRow /\ spent.rotated /\ spent.parent = tokens[p].parent
      /\ spent.tab = tokens[p].tab /\ spent.read = tokens[p].read
      /\ spent.revoked = tokens[p].revoked /\ spent.lost = tokens[p].lost
  BY <1>4, <1>7 DEF TokenRow
<1>9. PICK heir : heir = [R!Token(p, tokens[p].family, t, reqs[r].read)
                             EXCEPT !.lost = flight[t] # r]
  OBVIOUS
<1>10. /\ heir \in TokenRow /\ heir.parent = p /\ heir.tab = t /\ heir.read = reqs[r].read
       /\ ~heir.rotated /\ (~heir.lost => flight[t] = r)
  <2>1. tokens[p].family \in Nat /\ reqs[r].read \in Nat
    BY <1>2, <1>3, <1>4 DEF TokenRow
  <2>2. PICK base : base = R!Token(p, tokens[p].family, t, reqs[r].read)
    OBVIOUS
  <2>3. /\ base \in TokenRow /\ base.parent = p /\ base.tab = t /\ base.read = reqs[r].read
        /\ ~base.rotated
    BY <2>1, <2>2 DEF R!Token, TokenRow
  <2>4. heir = [base EXCEPT !.lost = flight[t] # r]
    BY <1>9, <2>2
  <2>5. (flight[t] # r) \in BOOLEAN
    OBVIOUS
  <2>6. heir.lost = (flight[t] # r)
    BY <2>3, <2>4 DEF TokenRow
  <2>7. heir \in TokenRow
    BY <2>3, <2>4, <2>5 DEF TokenRow
  <2>8. QED
    BY <2>3, <2>4, <2>6, <2>7 DEF TokenRow
<1>11. PICK old : old = [tokens EXCEPT ![p] = spent]
  OBVIOUS
<1>12. /\ old \in Seq(TokenRow) /\ Len(old) = n
       /\ \A j \in 1 .. n : old[j] = IF j = p THEN spent ELSE tokens[j]
  BY <1>1, <1>2, <1>8, <1>11, ExceptSeq
<1>13. PICK entry : entry = [reqs[r] EXCEPT !.phase = "committed", !.child = n + 1]
  OBVIOUS
<1>14. /\ entry \in RequestRow /\ entry.phase = "committed" /\ entry.child = n + 1
       /\ entry.kind = reqs[r].kind /\ entry.tab = t /\ entry.token = p
       /\ entry.read = reqs[r].read
  <2>1. reqs[r] \in RequestRow /\ n + 1 \in Nat
    BY <1>2, <1>3
  <2>2. /\ entry \in RequestRow /\ entry.phase = "committed" /\ entry.child = n + 1
        /\ entry.kind = reqs[r].kind /\ entry.tab = reqs[r].tab
        /\ entry.token = reqs[r].token /\ entry.read = reqs[r].read
    BY <1>13, <2>1 DEF RequestRow
  <2>3. QED
    BY <1>5, <1>6, <2>2
<1>15. /\ tokens' = Append(old, heir) /\ reqs' = [reqs EXCEPT ![r] = entry]
       /\ jar' = jar /\ flight' = flight
  BY <1>1, <1>5, <1>6, <1>7, <1>9, <1>11, <1>13 DEF R!Rotate, R!client
<1>16. /\ tokens' \in Seq(TokenRow) /\ Len(tokens') = n + 1 /\ tokens'[n + 1] = heir
       /\ \A j \in 1 .. n : tokens'[j] = IF j = p THEN spent ELSE tokens[j]
       /\ DOMAIN tokens' = 1 .. n + 1
  BY <1>10, <1>12, <1>15, AppendProperties, LenProperties, SMTT(30)
<1>17. /\ reqs' \in Seq(RequestRow) /\ Len(reqs') = Len(reqs)
       /\ reqs'[r] = entry /\ \A q \in 1 .. Len(reqs) : q # r => reqs'[q] = reqs[q]
  BY <1>2, <1>14, <1>15, ExceptSeq
<1>18. \A j \in 1 .. n : /\ tokens'[j].parent = tokens[j].parent /\ tokens'[j].tab = tokens[j].tab
                         /\ tokens'[j].read = tokens[j].read /\ tokens'[j].lost = tokens[j].lost
                         /\ tokens[j].rotated => tokens'[j].rotated
                         /\ tokens'[j].rotated => tokens[j].rotated \/ j = p
                         /\ tokens'[j].revoked = tokens[j].revoked
  BY <1>8, <1>16
<1>19. \A j \in 1 .. n + 1 : j \in 1 .. n \/ j = n + 1
  OBVIOUS
<1>20. n + 1 \in 1 .. n + 1 /\ \A j \in 1 .. n : j \in 1 .. n + 1 /\ j # n + 1
  OBVIOUS
<1>21. reqs[r].phase = "passed"
  BY DEF R!Rotate
<1>22. \A q \in 1 .. Len(reqs) :
          /\ reqs'[q].kind = reqs[q].kind /\ reqs'[q].tab = reqs[q].tab
          /\ reqs'[q].token = reqs[q].token /\ reqs'[q].read = reqs[q].read
  BY <1>5, <1>6, <1>14, <1>17
<1>23. SignInTyping'
  BY <1>2, <1>15, <1>16, <1>17, <1>20 DEF SignInTyping
<1>24. Descent'
  <2>1. ASSUME NEW j \in 1 .. n + 1
        PROVE  /\ tokens'[j].parent \in 0 .. (j - 1)
               /\ tokens'[j].parent # 0 => tokens'[tokens'[j].parent].rotated
    <3>1. CASE j = n + 1
      BY <1>8, <1>10, <1>16, <3>1
    <3>2. CASE j \in 1 .. n
      <4>1. tokens[j].parent # 0 => tokens[j].parent \in 1 .. n
        BY <1>4, <3>2
      <4>2. tokens[j].parent # 0 => tokens[tokens[j].parent].rotated
        BY <1>1, <3>2 DEF SignInInv, Descent
      <4>3. QED
        BY <1>4, <1>18, <3>2, <4>1, <4>2
    <3>3. QED
      BY <1>19, <3>1, <3>2
  <2>2. ASSUME NEW i \in 1 .. n + 1, tokens'[i].rotated
        PROVE  \E j \in 1 .. n + 1 : tokens'[j].parent = i
    <3>1. CASE i = p
      BY <1>10, <1>16, <1>20, <3>1
    <3>2. CASE i # p
      <4>1. i \in 1 .. n /\ tokens[i].rotated
        BY <1>10, <1>16, <1>18, <1>19, <2>2, <3>2
      <4>2. PICK j \in 1 .. n : tokens[j].parent = i
        BY <1>1, <4>1 DEF SignInInv, Descent
      <4>3. QED
        BY <1>18, <1>20, <4>2
    <3>3. QED
      BY <3>1, <3>2
  <2>3. QED
    BY <1>16, <2>1, <2>2 DEF Descent
<1>25. Knowledge'
  <2> SUFFICES ASSUME NEW q \in 1 .. Len(reqs)
               PROVE  /\ reqs'[q].token <= n + 1 /\ reqs'[q].read <= n + 1
                      /\ reqs'[q].child <= n + 1
                      /\ reqs'[q].phase \in {"passed", "alarm"} => reqs'[q].token # 0
                      /\ reqs'[q].phase = "passed" =>
                             \A j \in 1 .. n + 1 :
                                 tokens'[j].parent = reqs'[q].token => reqs'[q].read < j
                      /\ reqs'[q].phase = "alarm" =>
                             tokens'[reqs'[q].token].rotated \/ tokens'[reqs'[q].token].revoked
    BY <1>16, <1>17 DEF Knowledge
  <2>1. CASE q = r
    BY <1>3, <1>14, <1>17, <2>1
  <2>2. CASE q # r
    <3>1. reqs'[q] = reqs[q]
      BY <1>17, <2>2
    <3>2. reqs[q].phase \in {"passed", "alarm"} => reqs[q].token \in 1 .. n
      BY <1>3 DEF SignInInv, Knowledge
    <3>3. ASSUME reqs[q].phase = "passed", NEW j \in 1 .. n + 1,
                 tokens'[j].parent = reqs[q].token
          PROVE  reqs[q].read < j
      <4>1. CASE j = n + 1
        BY <1>3, <4>1
      <4>2. CASE j \in 1 .. n
        BY <1>1, <1>18, <3>3, <4>2 DEF SignInInv, Knowledge
      <4>3. QED
        BY <1>19, <4>1, <4>2
    <3>4. reqs[q].phase = "alarm" => tokens[reqs[q].token].rotated \/ tokens[reqs[q].token].revoked
      BY DEF SignInInv, Knowledge
    <3>5. QED
      BY <1>3, <1>18, <3>1, <3>2, <3>3, <3>4
  <2>3. QED
    BY <2>1, <2>2
<1>26. Flights'
  BY <1>15, <1>17, <1>22 DEF SignInInv, Flights
<1>27. \A q \in 1 .. Len(reqs) : q # r => (Carries(q)' <=> Carries(q))
  BY <1>17 DEF Carries
<1>28. Undelivered'
  <2>1. \A q \in 1 .. Len(reqs) : reqs[q].token # n + 1
    BY <1>3
  <2>2. \A j \in 1 .. n + 1 : tokens'[j].parent # n + 1
    BY <1>4, <1>10, <1>16, <1>18, <1>19
  <2>3. ASSUME NEW q \in 1 .. Len(reqs), Carries(q)'
        PROVE  /\ reqs'[q].child # 0 /\ reqs'[q].child # jar
               /\ \A s \in 1 .. Len(reqs) : reqs'[s].token # reqs'[q].child
               /\ \A j \in 1 .. n + 1 : tokens'[j].parent # reqs'[q].child
    <3>1. CASE q = r
      BY <1>2, <1>14, <1>17, <1>22, <2>1, <2>2, <3>1
    <3>2. CASE q # r
      <4>1. Carries(q) /\ reqs'[q] = reqs[q]
        BY <1>17, <1>27, <2>3, <3>2
      <4>2. p # reqs[q].child
        BY <1>2, <1>5, <4>1 DEF SignInInv, Undelivered
      <4>3. \A j \in 1 .. n + 1 : tokens'[j].parent # reqs[q].child
        BY <1>1, <1>10, <1>16, <1>18, <1>19, <4>1, <4>2 DEF SignInInv, Undelivered
      <4>4. QED
        BY <1>22, <4>1, <4>3 DEF SignInInv, Undelivered
    <3>3. QED
      BY <3>1, <3>2
  <2>4. ASSUME NEW q \in 1 .. Len(reqs), NEW s \in 1 .. Len(reqs), q # s, reqs'[s].child # 0
        PROVE  reqs'[q].child # reqs'[s].child
    <3>1. \A u \in 1 .. Len(reqs) : reqs[u].child # n + 1
      BY <1>3
    <3>2. CASE q = r
      BY <1>14, <1>17, <2>4, <3>1, <3>2
    <3>3. CASE s = r
      BY <1>14, <1>17, <2>4, <3>1, <3>3
    <3>4. CASE q # r /\ s # r
      BY <1>17, <2>4, <3>4 DEF SignInInv, Undelivered
    <3>5. QED
      BY <3>2, <3>3, <3>4
  <2>5. QED
    BY <1>15, <1>16, <1>17, <2>3, <2>4 DEF Undelivered
<1>29. r # 0 /\ ~Carries(r) /\ reqs'[r].phase = "committed" /\ reqs'[r].child = n + 1
  BY <1>2, <1>14, <1>17, <1>21 DEF Carries
<1>30. JarIsNewest'
  <2> SUFFICES ASSUME NEW j \in 1 .. n + 1, jar # 0, tokens'[j].parent = jar,
                      ~tokens'[j].lost
               PROVE  \E q \in 1 .. Len(reqs) :
                          /\ flight[tokens'[j].tab] = q /\ reqs'[q].kind = "refresh"
                          /\ reqs'[q].phase = "committed" /\ reqs'[q].child = j
    BY <1>15, <1>16, <1>17 DEF JarIsNewest, Carries
  <2>1. CASE j = n + 1
    <3>1. flight[t] = r /\ tokens'[j].tab = t
      BY <1>10, <1>16, <2>1
    <3>2. reqs[r].kind = "refresh"
      BY <1>29, <3>1 DEF SignInInv, Flights
    <3>3. QED
      BY <1>2, <1>22, <1>29, <2>1, <3>1, <3>2
  <2>2. CASE j \in 1 .. n
    <3>1. PICK q \in 1 .. Len(reqs) :
              flight[tokens[j].tab] = q /\ Carries(q) /\ reqs[q].child = j
      BY <1>1, <1>18, <2>2 DEF SignInInv, JarIsNewest
    <3>2. reqs'[q] = reqs[q]
      BY <1>17, <1>29, <3>1
    <3>3. QED
      BY <1>18, <2>2, <3>1, <3>2 DEF Carries
  <2>3. QED
    BY <1>19, <2>1, <2>2
<1>31. NoRaceWithItself'
  <2> SUFFICES ASSUME NEW u \in Tabs, NEW j \in 1 .. n + 1,
                      flight[u] # 0, reqs'[flight[u]].phase \in {"sent", "passed", "alarm"},
                      reqs'[flight[u]].token # 0,
                      tokens'[j].parent = reqs'[flight[u]].token, tokens'[j].tab = u
               PROVE  tokens'[j].lost
    BY <1>15, <1>16 DEF NoRaceWithItself
  <2>1. flight[u] \in 1 .. Len(reqs) /\ flight[u] # r
    BY <1>29 DEF SignInInv, Flights
  <2>2. reqs'[flight[u]] = reqs[flight[u]]
    BY <1>17, <2>1
  <2>3. CASE j = n + 1
    BY <1>10, <1>16, <2>1, <2>3
  <2>4. CASE j \in 1 .. n
    BY <1>1, <1>18, <2>2, <2>4 DEF SignInInv, NoRaceWithItself
  <2>5. QED
    BY <1>19, <2>3, <2>4
<1>32. R!HeirsOnlyByOverlap'
  <2> SUFFICES ASSUME NEW i \in 1 .. n + 1, NEW j \in 1 .. n + 1,
                      i < j, tokens'[i].parent = tokens'[j].parent, tokens'[i].parent # 0
               PROVE  tokens'[j].read < i
    BY <1>16 DEF R!HeirsOnlyByOverlap
  <2>1. i \in 1 .. n
    BY <1>19
  <2>2. CASE j = n + 1
    <3>1. tokens[i].parent = reqs[r].token
      BY <1>5, <1>10, <1>16, <1>18, <2>1, <2>2
    <3>2. reqs[r].read < i
      BY <1>1, <1>2, <1>21, <2>1, <3>1 DEF SignInInv, Knowledge
    <3>3. QED
      BY <1>10, <1>16, <2>2, <3>2
  <2>3. CASE j \in 1 .. n
    BY <1>2, <1>18, <2>1, <2>3 DEF SignInInv, R!HeirsOnlyByOverlap
  <2>4. QED
    BY <1>19, <2>2, <2>3
<1>33. QED
  BY <1>23, <1>24, <1>25, <1>26, <1>28, <1>30, <1>31, <1>32 DEF SignInInv

LEMMA SignInStarts == R!Init => SignInInv
<1> SUFFICES ASSUME R!Init PROVE SignInInv
  OBVIOUS
<1>1. tokens = << >> /\ reqs = << >> /\ jar = 0 /\ flight = [t \in Tabs |-> 0]
  BY DEF R!Init
<1>2. Len(tokens) = 0 /\ Len(reqs) = 0 /\ tokens \in Seq(TokenRow) /\ reqs \in Seq(RequestRow)
      /\ DOMAIN tokens = {}
  BY <1>1
<1>3. SignInTyping
  BY <1>1, <1>2 DEF SignInTyping
<1>4. \A i \in 1 .. 0 : FALSE
  OBVIOUS
<1>5. Descent /\ Knowledge /\ Undelivered /\ JarIsNewest
  BY <1>2, <1>4 DEF Descent, Knowledge, Undelivered, JarIsNewest
<1>6. Flights /\ NoRaceWithItself
  BY <1>1 DEF Flights, NoRaceWithItself
<1>7. R!HeirsOnlyByOverlap
  BY <1>2 DEF R!HeirsOnlyByOverlap
<1>8. QED
  BY <1>3, <1>5, <1>6, <1>7 DEF SignInInv

LEMMA SignInIsInductive == SignInInv /\ [R!Next]_R!vars => SignInInv'
<1> SUFFICES ASSUME SignInInv, [R!Next]_R!vars PROVE SignInInv'
  OBVIOUS
<1>1. ASSUME UNCHANGED <<tokens, jar, flight, reqs>> PROVE SignInInv'
  BY <1>1, TokensStay, RequestsStay, SameJar DEF SignInInv, Carries
<1>2. ASSUME NEW t \in Tabs, R!Login(t) PROVE SignInInv'
  BY <1>2, LoginKeeps
<1>3. ASSUME NEW t \in Tabs, R!Refresh(t) PROVE SignInInv'
  BY <1>3, SendKeeps DEF R!Refresh
<1>4. ASSUME NEW t \in Tabs, R!Logout(t) PROVE SignInInv'
  BY <1>4, SendKeeps DEF R!Logout, R!client
<1>5. ASSUME NEW t \in Tabs, R!Lose(t) PROVE SignInInv'
  BY <1>5, LoseKeeps
<1>6. ASSUME NEW t \in Tabs, R!Reload(t) PROVE SignInInv'
  BY <1>1, <1>6 DEF R!Reload
<1>7. ASSUME NEW r \in DOMAIN reqs, R!Read(r) PROVE SignInInv'
  BY <1>7, ReadKeeps
<1>8. ASSUME NEW r \in DOMAIN reqs, R!Rotate(r) PROVE SignInInv'
  BY <1>8, RotateKeeps
<1>9. ASSUME NEW r \in DOMAIN reqs, R!Revoke(r) PROVE SignInInv'
  BY <1>9, RevokeKeeps
<1>10. ASSUME NEW r \in DOMAIN reqs, R!RefreshAnswered(r) PROVE SignInInv'
  BY <1>10, RefreshAnsweredKeeps
<1>11. ASSUME NEW r \in DOMAIN reqs, R!LogoutAnswered(r) PROVE SignInInv'
  BY <1>11, LogoutAnsweredKeeps
<1>12. ASSUME NEW i \in DOMAIN tokens, R!TokenExpires(i) PROVE SignInInv'
  BY <1>12, ExpiryKeeps
<1>13. CASE R!SetBeta
  BY <1>1, <1>13 DEF R!SetBeta, R!client
<1>14. CASE UNCHANGED R!vars
  BY <1>1, <1>14 DEF R!vars
<1>15. QED
  BY <1>2, <1>3, <1>4, <1>5, <1>6, <1>7, <1>8, <1>9, <1>10, <1>11, <1>12, <1>13, <1>14
     DEF R!Next

\* SignInIsSound: rotate_refresh_token has no lock, and still, for any number
\* of tabs, requests and lost answers, nothing is issued for a token that was
\* seen spent, and no tab is alarmed because of itself (refreshInFlight).
THEOREM SignInIsSound == R!Spec => []RefreshIsSound
<1>1. SignInInv => RefreshIsSound
  BY AlarmsFollow DEF SignInInv, RefreshIsSound, R!RefreshIsSound
<1>2. QED
  BY <1>1, SignInStarts, SignInIsInductive, PTL DEF R!Spec

-----------------------------------------------------------------------------
(* EmailVerification: who may own an address.                              *)
MaybeAddress == Addresses \cup {None}

Account == [email : MaybeAddress, pending : MaybeAddress, withdrawals : Nat]

Link == [user : Users, email : MaybeAddress, consumed : BOOLEAN, invalidated : BOOLEAN,
         expired : BOOLEAN, after : Nat]

Operation == [kind : {"request", "verify", "delete"}, user : Users, address : MaybeAddress,
              link : Nat, phase : {"found", "loaded", "scanned", "stamped", "flushed"},
              seen : Account, snap : SUBSET Nat]

AddressTyping ==
    /\ account \in [Users -> Account]
    /\ links \in Seq(Link)
    /\ op \in [Requests -> Operation \cup {V!Idle}]

\* A verification is for the user and the address of its link.
OfItsLink ==
    \A o \in Requests : op[o].kind = "verify" =>
        /\ op[o].link \in DOMAIN links
        /\ links[op[o].link].user = op[o].user
        /\ links[op[o].link].email = op[o].address

Promoting(o) == op[o].kind = "verify" /\ op[o].phase = "flushed" /\ op[o].address # None

Room ==
    \A o \in Requests : Promoting(o) =>
        \A v \in Users \ {op[o].user} : account[v].email # op[o].address

Alone ==
    \A o, p \in Requests :
        Promoting(o) /\ Promoting(p) /\ op[o].user # op[p].user => op[o].address # op[p].address

AddressInv == AddressTyping /\ OfItsLink /\ Room /\ Alone /\ V!AddressBelongsToItsProver

\* Links are only added, spent and let expire.
Grown ==
    /\ links' \in Seq(Link)
    /\ DOMAIN links \subseteq DOMAIN links'
    /\ \A i \in DOMAIN links : /\ links'[i].user = links[i].user
                               /\ links'[i].email = links[i].email
                               /\ links[i].consumed => links'[i].consumed

LEMMA Ungrown == ASSUME AddressTyping, links' = links PROVE Grown
BY DEF AddressTyping, Grown

\* The links a transaction has stamped.
LEMMA StampedLinks ==
    ASSUME AddressTyping, NEW o \in Requests
    PROVE  /\ V!Stamped(o) \in Seq(Link)
           /\ DOMAIN V!Stamped(o) = DOMAIN links /\ Len(V!Stamped(o)) = Len(links)
           /\ \A i \in DOMAIN links :
                  /\ V!Stamped(o)[i].user = links[i].user
                  /\ V!Stamped(o)[i].email = links[i].email
                  /\ links[i].consumed \/ i = op[o].link => V!Stamped(o)[i].consumed
<1>1. links \in Seq(Link) /\ DOMAIN links = 1 .. Len(links) /\ Len(links) \in Nat
  BY DEF AddressTyping
<1>2. \A i \in DOMAIN links : links[i] \in Link
  BY <1>1
<1>3. \A i \in DOMAIN links :
          /\ V!Stamped(o)[i] \in Link
          /\ V!Stamped(o)[i].user = links[i].user
          /\ V!Stamped(o)[i].email = links[i].email
          /\ links[i].consumed \/ i = op[o].link => V!Stamped(o)[i].consumed
  BY <1>2 DEF V!Stamped, Link
<1>4. V!Stamped(o) = [i \in 1 .. Len(links) |-> V!Stamped(o)[i]]
  BY <1>1 DEF V!Stamped
<1>5. V!Stamped(o) \in [1 .. Len(links) -> Link]
  BY <1>1, <1>3, <1>4
<1>6. V!Stamped(o) \in Seq(Link)
  BY <1>1, <1>5, SeqDef
<1>7. DOMAIN V!Stamped(o) = 1 .. Len(links) /\ Len(V!Stamped(o)) = Len(links)
  BY <1>1, <1>5, <1>6, LenProperties
<1>8. QED
  BY <1>1, <1>3, <1>6, <1>7

\* As long as no account changes, and nothing new is about to be promoted.
LEMMA NothingPromoted ==
    ASSUME AddressInv, Grown, account' = account,
           op' \in [Requests -> Operation \cup {V!Idle}],
           \A o \in Requests : Promoting(o)' => op'[o] = op[o],
           \A o \in Requests : op'[o].kind = "verify" =>
               \/ /\ op[o].kind = "verify" /\ op'[o].link = op[o].link
                  /\ op'[o].user = op[o].user /\ op'[o].address = op[o].address
               \/ /\ op'[o].link \in DOMAIN links
                  /\ op'[o].user = links[op'[o].link].user
                  /\ op'[o].address = links[op'[o].link].email
    PROVE  AddressInv'
<1>1. AddressTyping' /\ OfItsLink'
  BY DEF AddressInv, AddressTyping, OfItsLink, Grown
<1>2. \A o \in Requests : Promoting(o)' => Promoting(o) /\ op'[o] = op[o]
  BY DEF Promoting
<1>3. Room' /\ Alone'
  BY <1>2 DEF AddressInv, Room, Alone
<1>4. V!AddressBelongsToItsProver'
  BY DEF AddressInv, V!AddressBelongsToItsProver, Grown
<1>5. QED
  BY <1>1, <1>3, <1>4 DEF AddressInv

\* What a request begins with.
LEMMA BeginsUnpromoted ==
    ASSUME AddressInv, UNCHANGED <<account, links>>,
           NEW o \in Requests, NEW kind \in {"request", "verify", "delete"}, NEW u \in Users,
           NEW a \in MaybeAddress, NEW i \in Nat, V!Begin(o, kind, u, a, i),
           kind = "verify" => i \in DOMAIN links /\ links[i].user = u /\ links[i].email = a
    PROVE  AddressInv'
<1> DEFINE h == [kind |-> kind, user |-> u, address |-> a, link |-> i,
                 phase |-> IF kind = "verify" THEN "found" ELSE "loaded",
                 seen |-> account[u], snap |-> {}]
<1>1. account[u] \in Account
  BY DEF AddressInv, AddressTyping
<1>2. h \in Operation
  BY <1>1 DEF Operation
<1>3. op' = [op EXCEPT ![o] = h]
  BY DEF V!Begin
<1>4. h.phase # "flushed" /\ h.kind = kind /\ h.user = u /\ h.address = a /\ h.link = i
  OBVIOUS
<1> HIDE DEF h
<1>5. op' \in [Requests -> Operation \cup {V!Idle}] /\ op'[o] = h
      /\ \A p \in Requests \ {o} : op'[p] = op[p]
  BY <1>2, <1>3 DEF AddressInv, AddressTyping
<1>6. \A p \in Requests : Promoting(p)' => op'[p] = op[p]
  BY <1>4, <1>5 DEF Promoting
<1>7. QED
  BY <1>4, <1>5, <1>6, Ungrown, NothingPromoted DEF AddressInv

LEMMA AddressInitially == V!Init => AddressInv
<1> SUFFICES ASSUME V!Init PROVE AddressInv
  OBVIOUS
<1>1. AddressTyping
  BY DEF V!Init, AddressTyping, Account, MaybeAddress
<1>2. \A o \in Requests : op[o].kind = "none"
  BY DEF V!Init, V!Idle
<1>3. V!AddressBelongsToItsProver
  BY DEF V!Init, V!AddressBelongsToItsProver
<1>4. QED
  BY <1>1, <1>2, <1>3 DEF AddressInv, OfItsLink, Room, Alone, Promoting

\* Of the accounts a commit changes only its user's, and gives it an address
\* only by promoting one.
LEMMA CommitWrites ==
    ASSUME AddressInv, NEW o \in Requests, V!Commit(o)
    PROVE  /\ op[o] \in Operation
           /\ account' \in [Users -> Account]
           /\ \A v \in Users \ {op[o].user} : account'[v] = account[v]
           /\ \/ account'[op[o].user].email \in {account[op[o].user].email, None}
              \/ /\ op[o].kind = "verify" /\ op[o].phase = "flushed"
                 /\ account'[op[o].user].email = op[o].address
<1>1. op[o] \in Operation
  BY DEF AddressInv, AddressTyping, V!Commit, V!Idle
<1>2. account[op[o].user] \in Account /\ op[o].seen \in Account
  BY <1>1 DEF AddressInv, AddressTyping, Operation
<1>3. account' = [account EXCEPT ![op[o].user] = V!Written(o)] /\ op[o].phase = "flushed"
  BY DEF V!Commit
<1>4. /\ V!Written(o) \in Account
      /\ \/ V!Written(o).email \in {account[op[o].user].email, None}
         \/ op[o].kind = "verify" /\ V!Written(o).email = op[o].address
  <2> DEFINE was == account[op[o].user]
  <2>0. /\ was.email \in MaybeAddress /\ was.pending \in MaybeAddress /\ was.withdrawals \in Nat
        /\ op[o].address \in MaybeAddress /\ None \in MaybeAddress
        /\ was = [email |-> was.email, pending |-> was.pending, withdrawals |-> was.withdrawals]
    BY <1>1, <1>2 DEF Account, Operation, MaybeAddress
  <2>1. CASE op[o].kind = "request"
    BY <1>1, <1>2, <2>1 DEF V!Written, V!Sends, Account, Operation
  <2>2. CASE op[o].kind = "verify"
    <3>1. V!Written(o) =
              [was EXCEPT !.email = IF op[o].seen.email # op[o].address THEN op[o].address ELSE @,
                          !.pending = IF op[o].seen.pending # None THEN None ELSE @]
      BY <2>2 DEF V!Written, V!Sends
    <3>2. PICK e \in {op[o].address, was.email}, q \in {None, was.pending} :
              V!Written(o) = [was EXCEPT !.email = e, !.pending = q]
      BY <3>1
    <3>3. V!Written(o) = [email |-> e, pending |-> q, withdrawals |-> was.withdrawals]
      BY <1>2, <3>2 DEF Account
    <3>4. e \in MaybeAddress /\ q \in MaybeAddress
      BY <2>0
    <3>5. QED
      BY <2>0, <2>2, <3>3, <3>4 DEF Account
  <2>3. CASE op[o].kind = "delete"
    <3>1. V!Written(o) =
              [was EXCEPT !.email = IF op[o].seen.email # None THEN None ELSE @,
                          !.pending = IF op[o].seen.pending # None THEN None ELSE @,
                          !.withdrawals = @ + 1]
      BY <2>3 DEF V!Written, V!Sends
    <3>2. PICK e \in {None, was.email}, q \in {None, was.pending} :
              V!Written(o) = [was EXCEPT !.email = e, !.pending = q, !.withdrawals = @ + 1]
      BY <3>1
    <3>3. V!Written(o) = [email |-> e, pending |-> q, withdrawals |-> was.withdrawals + 1]
      BY <1>2, <3>2 DEF Account
    <3>4. e \in MaybeAddress /\ q \in MaybeAddress /\ was.withdrawals + 1 \in Nat
      BY <2>0
    <3>5. V!Written(o).email = e /\ e \in {account[op[o].user].email, None}
      BY <3>3
    <3>6. QED
      BY <3>3, <3>4, <3>5 DEF Account
  <2>4. QED
    BY <1>1, <2>1, <2>2, <2>3 DEF Operation
<1>5. QED
  BY <1>1, <1>3, <1>4 DEF AddressInv, AddressTyping, Operation

LEMMA CommitGrows ==
    ASSUME AddressInv, NEW o \in Requests, V!Commit(o)
    PROVE  /\ Grown
           /\ op[o].kind = "verify" => links'[op[o].link].consumed
<1>1. op[o] \in Operation /\ op[o].user \in Users /\ op[o].address \in MaybeAddress
      /\ account[op[o].user].withdrawals \in Nat
  BY CommitWrites DEF AddressInv, AddressTyping, Operation, Account
<1>2. AddressTyping
  BY DEF AddressInv
<1>3. CASE V!Sends(o)
  <2> DEFINE l == [user |-> op[o].user, email |-> op[o].address, consumed |-> FALSE,
                   invalidated |-> FALSE, expired |-> FALSE,
                   after |-> account[op[o].user].withdrawals]
  <2>1. l \in Link
    BY <1>1 DEF Link
  <2>2. links' = Append(V!Stamped(o), l)
    BY <1>3 DEF V!Commit
  <2> HIDE DEF l
  <2>3. /\ links' \in Seq(Link) /\ DOMAIN links \subseteq DOMAIN links'
        /\ \A i \in DOMAIN links : links'[i] = V!Stamped(o)[i]
    BY <1>2, <2>1, <2>2, StampedLinks
  <2>4. \A i \in DOMAIN links : /\ links'[i].user = links[i].user
                                /\ links'[i].email = links[i].email
                                /\ links[i].consumed => links'[i].consumed
    BY <1>2, <2>3, StampedLinks
  <2>5. Grown
    BY <2>3, <2>4 DEF Grown
  <2>6. QED
    BY <1>3, <2>5 DEF V!Sends
<1>4. CASE ~V!Sends(o)
  <2>1. links' = V!Stamped(o)
    BY <1>4 DEF V!Commit
  <2>2. QED
    BY <1>2, <2>1, StampedLinks DEF Grown, AddressInv, OfItsLink
<1>5. QED
  BY <1>3, <1>4

\* A commit keeps the addresses proven and apart.
LEMMA CommitKeepsAddresses ==
    ASSUME AddressInv, NEW o \in Requests, V!Commit(o)
    PROVE  AddressInv'
<1>1. op' = [op EXCEPT ![o] = V!Idle]
  BY DEF V!Commit, V!End
<1>2. op'[o].kind = "none" /\ \A p \in Requests \ {o} : op'[p] = op[p]
  BY <1>1 DEF AddressInv, AddressTyping, V!Idle
<1>3. op' \in [Requests -> Operation \cup {V!Idle}]
  BY <1>1 DEF AddressInv, AddressTyping
<1> PICK u \in Users : u = op[o].user
  BY CommitWrites DEF Operation
<1>4. AddressTyping' /\ OfItsLink'
  <2>1. AddressTyping'
    BY <1>3, CommitWrites, CommitGrows DEF AddressTyping, Grown
  <2>2. \A p \in Requests : op'[p].kind = "verify" => op[p].kind = "verify" /\ op'[p] = op[p]
    BY <1>2
  <2>3. OfItsLink'
    BY <2>2, CommitGrows DEF AddressInv, OfItsLink, Grown
  <2>4. QED
    BY <2>1, <2>3
<1>5. \A p \in Requests : Promoting(p)' => p # o /\ Promoting(p) /\ op'[p] = op[p]
  BY <1>2 DEF Promoting
<1>6. Alone'
  BY <1>5 DEF AddressInv, Alone
<1>7. \A v \in Users \ {u} : account'[v] = account[v]
  BY CommitWrites
<1>8. CASE account'[u].email \in {account[u].email, None}
  <2>1. Room'
    BY <1>5, <1>7, <1>8 DEF AddressInv, Room, Promoting
  <2>2. V!AddressBelongsToItsProver'
    BY <1>7, <1>8, CommitGrows DEF AddressInv, V!AddressBelongsToItsProver, Grown
  <2>3. QED
    BY <1>4, <1>6, <2>1, <2>2 DEF AddressInv
<1>9. CASE /\ op[o].kind = "verify" /\ op[o].phase = "flushed"
           /\ account'[u].email = op[o].address /\ op[o].address # None
  <2>1. Promoting(o)
    BY <1>9 DEF Promoting
  <2>2. \A v \in Users \ {u} : account[v].email # op[o].address
    BY <2>1 DEF AddressInv, Room
  <2>3. Room'
    BY <1>5, <1>7, <1>9, <2>1 DEF AddressInv, Room, Alone
  <2>4. /\ op[o].link \in DOMAIN links' /\ links'[op[o].link].consumed
        /\ links'[op[o].link].user = u /\ links'[op[o].link].email = op[o].address
    BY <1>9, CommitGrows DEF AddressInv, OfItsLink, Grown
  <2>5. V!AddressBelongsToItsProver'
    BY <1>7, <1>9, <2>2, <2>4, CommitGrows DEF AddressInv, V!AddressBelongsToItsProver, Grown
  <2>6. QED
    BY <1>4, <1>6, <2>3, <2>5 DEF AddressInv
<1>10. QED
  BY <1>8, <1>9, CommitWrites

LEMMA FlushKeepsAddresses ==
    ASSUME AddressInv, NEW o \in Requests, V!Flush(o)
    PROVE  AddressInv'
<1>1. op[o] \in Operation /\ op[o].phase = "stamped" /\ UNCHANGED <<account, links>>
  BY DEF AddressInv, AddressTyping, V!Flush, V!Idle
<1>2. Grown
  BY <1>1, Ungrown DEF AddressInv
<1>3. CASE op' = [op EXCEPT ![o] = V!Idle]
  <2>1. op'[o] = V!Idle /\ \A p \in Requests \ {o} : op'[p] = op[p]
    BY <1>3 DEF AddressInv, AddressTyping
  <2>2. op' \in [Requests -> Operation \cup {V!Idle}]
    BY <1>3 DEF AddressInv, AddressTyping
  <2>3. QED
    BY <1>1, <1>2, <2>1, <2>2, NothingPromoted DEF Promoting, V!Idle
<1>4. CASE op' = [op EXCEPT ![o].phase = "flushed"]
  <2>1. /\ op' \in [Requests -> Operation \cup {V!Idle}]
        /\ \A p \in Requests \ {o} : op'[p] = op[p]
        /\ op'[o].kind = op[o].kind /\ op'[o].user = op[o].user
        /\ op'[o].address = op[o].address /\ op'[o].link = op[o].link
    BY <1>1, <1>4 DEF AddressInv, AddressTyping, Operation
  <2>2. CASE op[o].kind # "verify"
    BY <1>1, <1>2, <2>1, <2>2, NothingPromoted DEF Promoting
  <2>3. CASE op[o].kind = "verify"
    <3>1. op' # [op EXCEPT ![o] = V!Idle]
      BY <2>1, <2>3 DEF AddressInv, AddressTyping, V!Idle
    <3>2. /\ \A v \in Users \ {op[o].user} : account[v].email # op[o].address
          /\ \A p \in Requests : \A v \in Users \ {op[o].user} :
                 V!HoldsAccount(p, v) => ~(op[p].kind = "verify" /\ op[p].address = op[o].address)
      BY <2>3, <3>1 DEF V!Flush, V!End
    <3>3. \A p \in Requests \ {o} : Promoting(p) =>
              V!HoldsAccount(p, op[p].user) /\ op[p].user \in Users
      BY DEF Promoting, V!HoldsAccount, V!WritesAccount, V!Sends, AddressInv, AddressTyping,
             Operation, V!Idle
    <3>4. \A p \in Requests \ {o} : Promoting(p) /\ op[p].user # op[o].user =>
              op[p].address # op[o].address
      BY <3>2, <3>3 DEF Promoting
    <3>5. AddressTyping' /\ OfItsLink'
      BY <1>1, <2>1 DEF AddressInv, AddressTyping, OfItsLink
    <3>6. \A p \in Requests \ {o} : Promoting(p)' => Promoting(p) /\ op'[p] = op[p]
      BY <2>1 DEF Promoting
    <3>7. Room'
      BY <1>1, <2>1, <3>2, <3>6 DEF AddressInv, Room
    <3>8. Alone'
      BY <2>1, <3>4, <3>6 DEF AddressInv, Alone
    <3>9. V!AddressBelongsToItsProver'
      BY <1>1 DEF AddressInv, V!AddressBelongsToItsProver
    <3>10. QED
      BY <3>5, <3>7, <3>8, <3>9 DEF AddressInv
  <2>4. QED
    BY <2>2, <2>3
<1>5. QED
  BY <1>3, <1>4 DEF V!Flush, V!Advance, V!End

\* Every step keeps the invariant, action by action.
LEMMA AddressIsInductive == AddressInv /\ [V!Next]_V!vars => AddressInv'
<1> SUFFICES ASSUME AddressInv, [V!Next]_V!vars PROVE AddressInv'
  OBVIOUS
<1>1. \A i \in DOMAIN links : i \in Nat /\ links[i].user \in Users /\ links[i].email \in MaybeAddress
  <2>1. DOMAIN links = 1 .. Len(links) /\ \A i \in DOMAIN links : links[i] \in Link
    BY LenProperties DEF AddressInv, AddressTyping
  <2>2. QED
    BY <2>1 DEF Link
<1>2. ASSUME NEW o \in Requests, NEW u \in Users,
             (\E a \in Addresses : V!RequestEmail(o, u, a)) \/ V!ResendVerification(o, u)
                 \/ V!DeleteEmail(o, u)
      PROVE  AddressInv'
  <2>1. account[u].pending \in MaybeAddress
    BY DEF AddressInv, AddressTyping, Account
  <2>2. QED
    BY <1>2, <2>1, BeginsUnpromoted
       DEF V!RequestEmail, V!ResendVerification, V!DeleteEmail, MaybeAddress
<1>3. ASSUME NEW o \in Requests, NEW i \in DOMAIN links, V!VerifyEmail(o, i) PROVE AddressInv'
  BY <1>1, <1>3, BeginsUnpromoted DEF V!VerifyEmail
<1>4. ASSUME NEW o \in Requests, V!LoadUser(o) \/ V!Scan(o) \/ V!Stamp(o) PROVE AddressInv'
  <2>1. op[o] \in Operation
    BY <1>4 DEF V!LoadUser, V!Scan, V!Stamp, AddressInv, AddressTyping, V!Idle
  <2>2. /\ op' \in [Requests -> Operation \cup {V!Idle}]
        /\ \A p \in Requests \ {o} : op'[p] = op[p]
        /\ op'[o].kind = op[o].kind /\ op'[o].user = op[o].user
        /\ op'[o].address = op[o].address /\ op'[o].link = op[o].link
        /\ op'[o].phase # "flushed"
    <3>1. CASE V!Scan(o)
      <4>1. V!OutstandingOf(op[o].user) \ {op[o].link} \in SUBSET Nat
        BY <1>1 DEF V!OutstandingOf
      <4>2. QED
        BY <2>1, <3>1, <4>1 DEF V!Scan, AddressInv, AddressTyping, Operation
    <3>2. CASE V!Stamp(o)
      <4>1. {i \in op[o].snap : V!Outstanding(i)} \in SUBSET Nat
        BY <2>1 DEF Operation
      <4>2. QED
        BY <2>1, <3>2, <4>1 DEF V!Stamp, AddressInv, AddressTyping, Operation
    <3>3. CASE V!LoadUser(o)
      <4>1. account[op[o].user] \in Account
        BY <2>1 DEF Operation, AddressInv, AddressTyping
      <4>2. QED
        BY <2>1, <3>3, <4>1 DEF V!LoadUser, AddressInv, AddressTyping, Operation
    <3>4. QED
      BY <1>4, <3>1, <3>2, <3>3
  <2>3. Grown /\ account' = account
    BY <1>4, Ungrown DEF V!LoadUser, V!Scan, V!Stamp, AddressInv
  <2>4. QED
    BY <2>2, <2>3, NothingPromoted DEF Promoting
<1>5. ASSUME NEW o \in Requests, V!Fail(o) PROVE AddressInv'
  <2>1. /\ op' \in [Requests -> Operation \cup {V!Idle}]
        /\ op'[o].kind = "none" /\ \A p \in Requests \ {o} : op'[p] = op[p]
    BY <1>5 DEF V!Fail, V!End, AddressInv, AddressTyping, V!Idle
  <2>2. Grown /\ account' = account
    BY <1>5, Ungrown DEF V!Fail, AddressInv
  <2>3. QED
    BY <2>1, <2>2, NothingPromoted DEF Promoting
<1>6. ASSUME NEW i \in DOMAIN links, V!LinkExpires(i) PROVE AddressInv'
  <2>1. links' = [links EXCEPT ![i].expired = TRUE] /\ account' = account /\ op' = op
    BY <1>6 DEF V!LinkExpires
  <2>2. links[i] \in Link
    BY DEF AddressInv, AddressTyping
  <2>3. [links[i] EXCEPT !.expired = TRUE] \in Link
        /\ [links[i] EXCEPT !.expired = TRUE].user = links[i].user
        /\ [links[i] EXCEPT !.expired = TRUE].email = links[i].email
        /\ [links[i] EXCEPT !.expired = TRUE].consumed = links[i].consumed
    BY <2>2 DEF Link
  <2>4. Grown
    BY <2>1, <2>3, ExceptSeq DEF Grown, AddressInv, AddressTyping
  <2>5. QED
    BY <2>1, <2>4, NothingPromoted DEF AddressInv, AddressTyping
<1>7. CASE (\E a \in Addresses : V!CoolOff(a)) \/ UNCHANGED V!vars
  BY <1>7, Ungrown, NothingPromoted DEF V!CoolOff, V!vars, AddressInv, AddressTyping
<1>8. QED
  BY <1>2, <1>3, <1>4, <1>5, <1>6, <1>7, CommitKeepsAddresses, FlushKeepsAddresses DEF V!Next

(* An address is on one account only, and by a link of its own that its    *)
(* user opened, however requests, verifications and withdrawals of however *)
(* many users overlap (verify_email and uq_users_email_verified).          *)
THEOREM AddressesAreProven == V!Spec => []AddressBelongsToItsProver
<1>1. AddressInv => AddressBelongsToItsProver
  BY DEF AddressInv, AddressBelongsToItsProver, V!AddressBelongsToItsProver
<1>2. QED
  BY AddressInitially, AddressIsInductive, <1>1, PTL DEF V!Spec

-----------------------------------------------------------------------------
(* GradingRetry: each attempt is settled once.                             *)
Counts == [correct : Int, judged : Int]

AttemptRow == [status : G!Verdicts \cup {"pending", "failed"}, retries : Nat, runs : Nat]

Run == [pc : {"grading", "crediting"}, todo : SUBSET Attempts, done : SUBSET Attempts,
        rows : [Attempts -> AttemptRow], base : Counts, gain : Counts,
        verdict : G!Verdicts \cup {"none", "pending", "failed"}]

Submission == [pc : {"read", "written"}, base : Counts, verdict : G!Verdicts]

GradingTyping ==
    /\ attempt \in [Attempts -> AttemptRow]
    /\ stats \in Counts
    /\ job \in [Jobs -> Run \cup {G!Idle}]
    /\ submit \in Submission \cup {G!Idle}
    /\ credits \in [Attempts -> Nat]

\* Each committed run that leaves an attempt pending has used up a retry.
RetriesAreRuns ==
    \A a \in Attempts : attempt[a].status = "pending" =>
        attempt[a].runs = attempt[a].retries /\ attempt[a].retries < MAX_RETRY_ATTEMPTS

\* What a run has not looked at yet is as it read it.
FreshRows ==
    \A j \in Jobs : job[j] # G!Idle =>
        /\ \A a \in Attempts \ job[j].done : job[j].rows[a] = attempt[a]
        /\ \A a \in job[j].todo \cup job[j].done : attempt[a].status = "pending"
        /\ job[j].todo \cap job[j].done = {}

\* What it has looked at has used one retry more, or is settled.
LookedAt ==
    \A j \in Jobs : job[j] # G!Idle =>
        \A a \in job[j].done : job[j].rows[a].status = "pending" =>
            /\ job[j].rows[a].retries = attempt[a].retries + 1
            /\ job[j].rows[a].runs = attempt[a].runs + 1
            /\ job[j].rows[a].retries < MAX_RETRY_ATTEMPTS

SettlingInv == GradingTyping /\ RetriesAreRuns /\ FreshRows /\ LookedAt /\ G!CountedExactlyOnce

LEMMA IdleIsNoRun ==
    /\ G!Idle \notin Run /\ G!Idle \notin Submission
    /\ \A r \in Run : r.pc # "idle"
BY DEF G!Idle, Run, Submission

LEMMA CountsAdd ==
    /\ G!Zero \in Counts
    /\ \A c \in Counts, v \in G!Verdicts \cup {"none", "pending", "failed"} :
           G!Plus(c, v) \in Counts
    /\ stats \in Counts => \A b, g \in Counts : G!Store(b, g) \in Counts
BY DEF G!Zero, Counts, G!Plus, G!Store

LEMMA SettlingInitially == ASSUME MAX_RETRY_ATTEMPTS \in Nat \ {0} PROVE G!Init => SettlingInv
<1> SUFFICES ASSUME G!Init PROVE SettlingInv
  OBVIOUS
<1>1. \A a \in Attempts : attempt[a] = [status |-> "pending", retries |-> 0, runs |-> 0]
  BY DEF G!Init
<1>2. attempt \in [Attempts -> AttemptRow] /\ credits \in [Attempts -> Nat]
  BY DEF G!Init, AttemptRow
<1>3. GradingTyping
  BY <1>2, CountsAdd DEF G!Init, GradingTyping
<1>4. RetriesAreRuns
  BY <1>1 DEF RetriesAreRuns
<1>5. FreshRows /\ LookedAt
  BY DEF G!Init, FreshRows, LookedAt
<1>6. G!CountedExactlyOnce
  BY <1>1 DEF G!Init, G!CountedExactlyOnce, G!Verdicts
<1>7. QED
  BY <1>3, <1>4, <1>5, <1>6 DEF SettlingInv

\* The grader has been asked about an attempt.
LEMMA GradedKeeps ==
    ASSUME MAX_RETRY_ATTEMPTS \in Nat \ {0}, SettlingInv,
           NEW j \in Jobs, NEW a \in Attempts,
           NEW outcome \in G!Verdicts \cup {"pending", "failed"}, NEW retries \in Nat,
           G!Graded(j, a, outcome, retries), UNCHANGED <<attempt, stats, submit, G!log>>,
           outcome = "pending" => /\ retries = job[j].rows[a].retries + 1
                                 /\ retries < MAX_RETRY_ATTEMPTS
    PROVE  SettlingInv'
<1>1. job[j] \in Run /\ a \in job[j].todo
  BY DEF G!Graded, SettlingInv, GradingTyping, G!Idle
<1>2. job[j].rows \in [Attempts -> AttemptRow] /\ job[j].rows[a] \in AttemptRow
  BY <1>1 DEF Run
<1> DEFINE newRow == [status |-> outcome, retries |-> retries, runs |-> job[j].rows[a].runs + 1]
           newRows == [job[j].rows EXCEPT ![a] = newRow]
<1>3. newRow \in AttemptRow
  BY <1>2 DEF AttemptRow
<1>4. /\ newRows \in [Attempts -> AttemptRow] /\ newRows[a] = newRow
      /\ \A b \in Attempts \ {a} : newRows[b] = job[j].rows[b]
  BY <1>2, <1>3
<1>5. /\ job'[j] \in Run
      /\ job'[j].todo = job[j].todo \ {a}
      /\ job'[j].done = job[j].done \cup {a}
      /\ job'[j].rows = newRows
  <2>1. PICK pc \in {"grading", "crediting"}, base \in Counts :
            job' = [job EXCEPT ![j].todo = @ \ {a}, ![j].done = @ \cup {a}, ![j].rows[a] = newRow,
                               ![j].pc = pc, ![j].verdict = outcome, ![j].base = base]
    BY <1>1 DEF G!Graded, SettlingInv, GradingTyping, Run
  <2>2. job'[j] = [pc |-> pc, todo |-> job[j].todo \ {a}, done |-> job[j].done \cup {a},
                   rows |-> newRows, base |-> base, gain |-> job[j].gain, verdict |-> outcome]
    BY <1>1, <2>1 DEF SettlingInv, GradingTyping, Run
  <2>3. job[j].todo \in SUBSET Attempts /\ job[j].done \in SUBSET Attempts /\ job[j].gain \in Counts
    BY <1>1 DEF Run
  <2> HIDE DEF newRows
  <2>4. QED
    BY <1>4, <2>2, <2>3 DEF Run
<1>6. \A k \in Jobs \ {j} : job'[k] = job[k]
  BY DEF G!Graded, SettlingInv, GradingTyping
<1>7. job' \in [Jobs -> Run \cup {G!Idle}]
  BY <1>5, <1>6 DEF G!Graded, SettlingInv, GradingTyping
<1>8. a \notin job[j].done /\ job[j].rows[a] = attempt[a] /\ attempt[a].status = "pending"
  BY <1>1, IdleIsNoRun DEF SettlingInv, FreshRows
<1> HIDE DEF newRows
<1>9. GradingTyping' /\ RetriesAreRuns' /\ G!CountedExactlyOnce'
  BY <1>7 DEF SettlingInv, GradingTyping, RetriesAreRuns, G!CountedExactlyOnce, G!log
<1>10. FreshRows'
  BY <1>1, <1>4, <1>5, <1>6, IdleIsNoRun DEF SettlingInv, FreshRows
<1>11. LookedAt'
  <2>1. newRow.status = "pending" => /\ newRow.retries = attempt[a].retries + 1
                                     /\ newRow.runs = attempt[a].runs + 1
                                     /\ newRow.retries < MAX_RETRY_ATTEMPTS
    BY <1>8
  <2> HIDE DEF newRow
  <2>2. \A b \in job'[j].done : job'[j].rows[b].status = "pending" =>
            /\ job'[j].rows[b].retries = attempt[b].retries + 1
            /\ job'[j].rows[b].runs = attempt[b].runs + 1
            /\ job'[j].rows[b].retries < MAX_RETRY_ATTEMPTS
    <3> SUFFICES ASSUME NEW b \in job'[j].done, job'[j].rows[b].status = "pending"
                 PROVE  /\ job'[j].rows[b].retries = attempt[b].retries + 1
                        /\ job'[j].rows[b].runs = attempt[b].runs + 1
                        /\ job'[j].rows[b].retries < MAX_RETRY_ATTEMPTS
      OBVIOUS
    <3>1. CASE b = a
      BY <1>4, <1>5, <2>1, <3>1
    <3>2. CASE b # a
      <4>1. b \in job[j].done /\ b \in Attempts
        BY <1>1, <1>5, <3>2 DEF Run
      <4>2. job'[j].rows[b] = job[j].rows[b]
        BY <1>4, <1>5, <3>2, <4>1
      <4>3. QED
        BY <1>1, <4>1, <4>2, IdleIsNoRun DEF SettlingInv, LookedAt
    <3>3. QED
      BY <3>1, <3>2
  <2>3. QED
    BY <1>6, <2>2 DEF SettlingInv, LookedAt
<1>12. QED
  BY <1>9, <1>10, <1>11 DEF SettlingInv

\* The commit of a run: with one process nothing it read has changed.
LEMMA FinishKeeps ==
    ASSUME MAX_RETRY_ATTEMPTS \in Nat \ {0}, \A j, k \in Jobs : j = k, SettlingInv,
           NEW j \in Jobs, G!Finish(j)
    PROVE  SettlingInv'
<1>1. job[j] \in Run /\ job[j] # G!Idle
  BY IdleIsNoRun DEF G!Finish, SettlingInv, GradingTyping, G!Idle
<1>2. /\ job[j].done \in SUBSET Attempts /\ job[j].base \in Counts /\ job[j].gain \in Counts
      /\ \A a \in Attempts : job[j].rows[a] \in AttemptRow
  BY <1>1 DEF Run
<1>3. \A a \in job[j].done :
          /\ attempt[a].status = "pending"
          /\ attempt'[a] = IF job[j].rows[a].status = "pending"
                           THEN [job[j].rows[a] EXCEPT !.status = "pending"] ELSE job[j].rows[a]
  BY <1>1, <1>2 DEF G!Finish, G!Rows, SettlingInv, FreshRows
<1>4. \A a \in job[j].done : attempt'[a] = job[j].rows[a]
  <2>1. \A r \in AttemptRow : r.status = "pending" => [r EXCEPT !.status = "pending"] = r
    BY DEF AttemptRow
  <2>2. QED
    BY <1>2, <1>3, <2>1
<1>5. \A a \in Attempts \ job[j].done : attempt'[a] = attempt[a]
  BY DEF G!Finish, G!Rows
<1>6. \A a \in Attempts : attempt'[a] \in AttemptRow
  BY <1>2, <1>4, <1>5 DEF SettlingInv, GradingTyping
<1>7. GradingTyping'
  <2>1. attempt' \in [Attempts -> AttemptRow]
    BY <1>6 DEF G!Finish, G!Rows
  <2>2. stats' \in Counts
    BY <1>2, CountsAdd DEF G!Finish, SettlingInv, GradingTyping
  <2>3. job' \in [Jobs -> Run \cup {G!Idle}]
    BY DEF G!Finish, SettlingInv, GradingTyping
  <2>4. credits' \in [Attempts -> Nat]
    BY DEF G!Finish, SettlingInv, GradingTyping
  <2>5. QED
    BY <2>1, <2>2, <2>3, <2>4 DEF G!Finish, SettlingInv, GradingTyping
<1>8. \A k \in Jobs : job'[k] = G!Idle
  BY DEF G!Finish, SettlingInv, GradingTyping
<1>9. FreshRows' /\ LookedAt'
  BY <1>8 DEF FreshRows, LookedAt
<1>10. RetriesAreRuns'
  <2> SUFFICES ASSUME NEW a \in Attempts, attempt'[a].status = "pending"
               PROVE  /\ attempt'[a].runs = attempt'[a].retries
                      /\ attempt'[a].retries < MAX_RETRY_ATTEMPTS
    BY DEF RetriesAreRuns
  <2>1. CASE a \in job[j].done
    <3>1. /\ job[j].rows[a].retries = attempt[a].retries + 1
          /\ job[j].rows[a].runs = attempt[a].runs + 1
          /\ job[j].rows[a].retries < MAX_RETRY_ATTEMPTS
      BY <1>1, <1>4, <2>1 DEF SettlingInv, LookedAt
    <3>2. attempt[a].runs = attempt[a].retries
      BY <1>3, <2>1 DEF SettlingInv, RetriesAreRuns
    <3>3. QED
      BY <1>4, <2>1, <3>1, <3>2
  <2>2. CASE a \notin job[j].done
    BY <1>5, <2>2 DEF SettlingInv, RetriesAreRuns
  <2>3. QED
    BY <2>1, <2>2
<1>11. G!CountedExactlyOnce'
  <2> SUFFICES ASSUME NEW a \in Attempts
               PROVE  credits'[a] = IF attempt'[a].status \in G!Verdicts THEN 1 ELSE 0
    BY DEF G!CountedExactlyOnce
  <2>1. credits[a] = IF attempt[a].status \in G!Verdicts THEN 1 ELSE 0
    BY DEF SettlingInv, G!CountedExactlyOnce
  <2>2. credits'[a] = credits[a] + (IF a \in job[j].done /\ job[j].rows[a].status \in G!Verdicts
                                    THEN 1 ELSE 0)
    BY DEF G!Finish
  <2>3. CASE a \in job[j].done
    <3>1. attempt[a].status = "pending" /\ attempt'[a] = job[j].rows[a]
      BY <1>3, <1>4, <2>3
    <3>2. credits[a] = 0
      BY <2>1, <3>1 DEF G!Verdicts
    <3>3. QED
      BY <2>2, <2>3, <3>1, <3>2
  <2>4. CASE a \notin job[j].done
    BY <1>5, <2>1, <2>2, <2>4
  <2>5. QED
    BY <2>3, <2>4
<1>12. QED
  BY <1>7, <1>9, <1>10, <1>11 DEF SettlingInv

\* Steps that touch no attempt and nothing a run has read.
LEMMA NothingSettled ==
    ASSUME SettlingInv, UNCHANGED <<attempt, credits>>, GradingTyping',
           \A j \in Jobs : job'[j] # G!Idle =>
               /\ job[j] # G!Idle /\ job'[j].todo = job[j].todo
               /\ job'[j].done = job[j].done /\ job'[j].rows = job[j].rows
    PROVE  SettlingInv'
BY DEF SettlingInv, RetriesAreRuns, FreshRows, LookedAt, G!CountedExactlyOnce

\* Every step keeps the invariant, action by action.
LEMMA SettlingIsInductive ==
    ASSUME MAX_RETRY_ATTEMPTS \in Nat \ {0}, \A j, k \in Jobs : j = k,
           SettlingInv, [G!Next]_G!vars
    PROVE  SettlingInv'
<1>1. ASSUME NEW j \in Jobs, G!Start(j) PROVE SettlingInv'
  <2> DEFINE pending == {a \in Attempts : attempt[a].status = "pending"}
             new == [pc |-> "grading", todo |-> pending, done |-> {}, rows |-> attempt,
                     base |-> G!Zero, gain |-> G!Zero, verdict |-> "none"]
  <2>1. new \in Run
    BY CountsAdd DEF SettlingInv, GradingTyping, Run
  <2>2. /\ new.todo = pending /\ new.done = {} /\ new.rows = attempt
    OBVIOUS
  <2>3. job' = [job EXCEPT ![j] = new] /\ UNCHANGED <<attempt, stats, submit, G!log>>
    BY <1>1 DEF G!Start
  <2>4. \A a \in pending : attempt[a].status = "pending"
    OBVIOUS
  <2> HIDE DEF new, pending
  <2>5. job'[j] = new /\ \A k \in Jobs \ {j} : job'[k] = job[k]
    BY <2>3 DEF SettlingInv, GradingTyping
  <2>6. GradingTyping'
    BY <2>1, <2>3 DEF SettlingInv, GradingTyping, G!log
  <2>7. FreshRows'
    BY <2>2, <2>3, <2>4, <2>5 DEF SettlingInv, FreshRows
  <2>8. LookedAt'
    BY <2>2, <2>3, <2>5 DEF SettlingInv, LookedAt
  <2>9. RetriesAreRuns' /\ G!CountedExactlyOnce'
    BY <2>3 DEF SettlingInv, RetriesAreRuns, G!CountedExactlyOnce, G!log
  <2>10. QED
    BY <2>6, <2>7, <2>8, <2>9 DEF SettlingInv
<1>2. ASSUME NEW j \in Jobs, G!Credit(j) PROVE SettlingInv'
  <2>1. job[j] \in Run /\ job[j].verdict \in G!Verdicts \cup {"none", "pending", "failed"}
        /\ job[j].gain \in Counts
    BY <1>2 DEF G!Credit, SettlingInv, GradingTyping, G!Idle, Run
  <2>2. G!Plus(job[j].gain, job[j].verdict) \in Counts
    BY <2>1, CountsAdd
  <2>3. job' = [job EXCEPT ![j].pc = "grading", ![j].gain = G!Plus(job[j].gain, job[j].verdict)]
    BY <1>2 DEF G!Credit
  <2>4. /\ job'[j] \in Run /\ job'[j].todo = job[j].todo
        /\ job'[j].done = job[j].done /\ job'[j].rows = job[j].rows
        /\ \A k \in Jobs \ {j} : job'[k] = job[k]
    BY <2>1, <2>2, <2>3 DEF SettlingInv, GradingTyping, Run
  <2>5. GradingTyping' /\ UNCHANGED <<attempt, credits>>
    BY <1>2, <2>3, <2>4 DEF G!Credit, SettlingInv, GradingTyping, G!log
  <2>6. QED
    BY <2>1, <2>4, <2>5, IdleIsNoRun, NothingSettled
<1>3. ASSUME NEW j \in Jobs, G!Commit(j) PROVE SettlingInv'
  BY <1>3, FinishKeeps DEF G!Commit
<1>4. ASSUME NEW j \in Jobs, G!Abort(j) PROVE SettlingInv'
  <2>1. job'[j] = G!Idle /\ \A k \in Jobs \ {j} : job'[k] = job[k]
    BY <1>4 DEF G!Abort, SettlingInv, GradingTyping
  <2>2. GradingTyping' /\ UNCHANGED <<attempt, credits>>
    BY <1>4 DEF G!Abort, SettlingInv, GradingTyping
  <2>3. QED
    BY <2>1, <2>2, NothingSettled
<1>5. ASSUME NEW j \in Jobs, NEW a \in Attempts, G!GraderTimesOut(j, a) PROVE SettlingInv'
  <2>1. job[j] \in Run /\ job[j].rows[a].retries \in Nat
    BY <1>5 DEF G!GraderTimesOut, SettlingInv, GradingTyping, Run, AttemptRow
  <2> DEFINE n == job[j].rows[a].retries + 1
  <2>2. /\ n \in Nat /\ UNCHANGED <<attempt, stats, submit, G!log>>
        /\ \/ n < MAX_RETRY_ATTEMPTS /\ G!Graded(j, a, "pending", n)
           \/ G!Graded(j, a, "failed", 0)
    BY <1>5, <2>1 DEF G!GraderTimesOut
  <2>3. CASE n < MAX_RETRY_ATTEMPTS /\ G!Graded(j, a, "pending", n)
    BY <2>2, <2>3, GradedKeeps
  <2>4. CASE G!Graded(j, a, "failed", 0)
    BY <2>2, <2>4, GradedKeeps
  <2>5. QED
    BY <2>2, <2>3, <2>4
<1>6. ASSUME NEW j \in Jobs, NEW a \in Attempts,
             G!GraderTalksNonsense(j, a) \/ \E v \in G!Verdicts : G!GraderJudges(j, a, v)
      PROVE  SettlingInv'
  BY <1>6, GradedKeeps DEF G!GraderTalksNonsense, G!GraderJudges, G!Verdicts
<1>7. CASE (\E v \in G!Verdicts : G!SubmitReads(v)) \/ G!SubmitWrites \/ G!SubmitCommits
           \/ UNCHANGED G!vars
  <2>1. submit' \in Submission \cup {G!Idle}
    <3>1. ASSUME NEW v \in G!Verdicts, G!SubmitReads(v) PROVE submit' \in Submission
      BY <3>1 DEF G!SubmitReads, Submission, SettlingInv, GradingTyping
    <3>2. CASE G!SubmitWrites
      <4>1. submit \in Submission
        BY <3>2 DEF G!SubmitWrites, SettlingInv, GradingTyping, G!Idle
      <4>2. QED
        BY <3>2, <4>1 DEF G!SubmitWrites, Submission
    <3>3. QED
      BY <1>7, <3>1, <3>2 DEF G!SubmitCommits, G!vars, SettlingInv, GradingTyping
  <2>2. stats' \in Counts
    <3>1. CASE G!SubmitCommits
      <4>1. submit \in Submission /\ submit.base \in Counts /\ submit.verdict \in G!Verdicts
        BY <3>1 DEF G!SubmitCommits, SettlingInv, GradingTyping, G!Idle, Submission
      <4>2. QED
        BY <3>1, <4>1, CountsAdd DEF G!SubmitCommits, SettlingInv, GradingTyping
    <3>2. QED
      BY <1>7, <3>1 DEF G!SubmitReads, G!SubmitWrites, G!vars, SettlingInv, GradingTyping
  <2>3. UNCHANGED <<attempt, job, credits>>
    BY <1>7 DEF G!SubmitReads, G!SubmitWrites, G!SubmitCommits, G!vars, G!log
  <2>4. GradingTyping'
    BY <2>1, <2>2, <2>3 DEF SettlingInv, GradingTyping
  <2>5. QED
    BY <2>3, <2>4, NothingSettled
<1>8. QED
  BY <1>1, <1>2, <1>3, <1>4, <1>5, <1>6, <1>7 DEF G!Next

(* With one process running resolve_pending_summarize_grades an attempt is *)
(* counted exactly once, when it is graded, and is pending through fewer   *)
(* than MAX_RETRY_ATTEMPTS committed runs, however many runs die and       *)
(* whatever is submitted meanwhile.                                        *)
THEOREM OneProcessSettlesOnce ==
    ASSUME MAX_RETRY_ATTEMPTS \in Nat \ {0}, \A j, k \in Jobs : j = k
    PROVE  G!Spec => []GradingSettlesOnce
<1>1. SettlingInv => GradingSettlesOnce
  BY DEF SettlingInv, G!GradingSettlesOnce, RetriesAreRuns, G!PendingIsBounded, GradingSettlesOnce
<1>2. G!Init => SettlingInv
  BY SettlingInitially
<1>3. SettlingInv /\ [G!Next]_G!vars => SettlingInv'
  BY SettlingIsInductive
<1>4. QED
  BY <1>1, <1>2, <1>3, PTL DEF G!Spec

-----------------------------------------------------------------------------
(* JobTrigger: the locks of the triggered jobs.                            *)
Handling ==
    [phase : {"idle", "next", "running", "ended"}, todo : SUBSET Triggerable,
     job : Triggerable \cup {None}, locked : BOOLEAN]

\* A call has a job exactly while it runs it.
Shape ==
    /\ lock \in [Triggerable -> BOOLEAN]
    /\ call \in [Triggers -> Handling]
    /\ \A t \in Triggers : call[t].job # None <=> call[t].phase \in {"running", "ended"}

UnlockedAfterOutage ==
    \A t \in Triggers, j \in Triggerable : J!Runs(t, j) /\ ~call[t].locked => j \in outages

RunnersHoldTheLock ==
    \A t \in Triggers, j \in Triggerable \ (outages \cup overruns) : J!Runs(t, j) => lock[j]

Guarded ==
    Shape /\ UnlockedAfterOutage /\ RunnersHoldTheLock /\ J!GuardHolds /\ J!LocksAreReturned

\* The steps that leave lock, calls and faults alone: the process's own loops.
LEMMA LoopsDisturbNothing ==
    ASSUME Guarded, UNCHANGED <<lock, call, J!faults>>
    PROVE  Guarded'
BY DEF Guarded, Shape, UnlockedAfterOutage, RunnersHoldTheLock, J!GuardHolds, J!LocksAreReturned,
       J!Runs, J!faults

\* A call that takes up no job and drops none: only its list changes.
LEMMA IdleHandsDisturbNothing ==
    ASSUME None \notin Triggerable, Guarded, NEW t \in Triggers, NEW h \in Handling,
           call[t].phase \in {"idle", "next"}, h.phase \in {"idle", "next"}, h.job = None,
           call' = [call EXCEPT ![t] = h], UNCHANGED <<lock, J!faults>>
    PROVE  Guarded'
<1>1. Shape'
  BY DEF Guarded, Shape, J!faults
<1>2. \A s \in Triggers, j \in Triggerable :
          /\ J!Runs(s, j)' <=> J!Runs(s, j)
          /\ J!Runs(s, j) => call'[s] = call[s]
  BY DEF Guarded, Shape, J!Runs
<1>3. QED
  BY <1>1, <1>2 DEF Guarded, UnlockedAfterOutage, RunnersHoldTheLock, J!GuardHolds,
                    J!LocksAreReturned, J!faults

\* A call takes up a job: others keep theirs.
LEMMA OneMoreRuns ==
    ASSUME None \notin Triggerable, Guarded,
           NEW t \in Triggers, NEW j \in Triggerable, NEW b \in BOOLEAN,
           J!Takes(t, j), J!RunJob(t, j, b)
    PROVE  /\ call' \in [Triggers -> Handling]
           /\ \A s \in Triggers :
                  call'[s].job # None <=> call'[s].phase \in {"running", "ended"}
           /\ J!Runs(t, j)' /\ call'[t].locked = b
           /\ \A i \in Triggerable : ~J!Runs(t, i)
           /\ \A i \in Triggerable \ {j} : ~J!Runs(t, i)'
           /\ \A s \in Triggers \ {t} : call'[s] = call[s]
BY DEF Guarded, Shape, Handling, J!Runs, J!Takes, J!RunJob

\* A call is done with its job: others keep theirs.
LEMMA OneFewerRuns ==
    ASSUME None \notin Triggerable, Guarded, NEW t \in Triggers, call[t].phase = "ended",
           J!NextJob(t, call[t].job)
    PROVE  /\ call[t].job \in Triggerable
           /\ J!Runs(t, call[t].job)
           /\ call' \in [Triggers -> Handling]
           /\ \A s \in Triggers :
                  call'[s].job # None <=> call'[s].phase \in {"running", "ended"}
           /\ \A i \in Triggerable : ~J!Runs(t, i)'
           /\ \A i \in Triggerable \ {call[t].job} : ~J!Runs(t, i)
           /\ \A s \in Triggers \ {t} : call'[s] = call[s]
BY DEF Guarded, Shape, Handling, J!Runs, J!NextJob

LEMMA GuardedInitially == J!Init => Guarded
BY DEF J!Init, J!Idle, Guarded, Shape, Handling, UnlockedAfterOutage, RunnersHoldTheLock,
       J!GuardHolds, J!LocksAreReturned, J!Runs

\* Every step keeps the guard, action by action.
LEMMA GuardedIsInductive ==
    ASSUME None \notin Triggerable, Guarded, [J!Next]_J!vars
    PROVE  Guarded'
<1> USE DEF J!faults
<1>1. ASSUME NEW t \in Triggers, NEW names \in SUBSET Triggerable, J!Call(t, names) PROVE Guarded'
  <2> DEFINE h == [phase |-> "next", todo |-> names, job |-> None, locked |-> FALSE]
  <2>1. h \in Handling /\ h.phase = "next" /\ h.job = None
    BY DEF Handling
  <2>2. call[t].phase = "idle"
    BY <1>1 DEF J!Call, J!Idle
  <2>3. call' = [call EXCEPT ![t] = h]
    BY <1>1 DEF J!Call
  <2> HIDE DEF h
  <2>4. QED
    BY <1>1, <2>1, <2>2, <2>3, IdleHandsDisturbNothing DEF J!Call
<1>2. ASSUME NEW t \in Triggers, NEW j \in Triggerable, J!Claim(t, j) PROVE Guarded'
  <2>1. J!Takes(t, j) /\ J!RunJob(t, j, TRUE) /\ ~lock[j] /\ lock' = [lock EXCEPT ![j] = TRUE]
    BY <1>2 DEF J!Claim
  <2>2. \A s \in Triggers, i \in Triggerable \ {j} :
            (J!Runs(s, i)' <=> J!Runs(s, i)) /\ (J!Runs(s, i) => call'[s] = call[s])
    BY <2>1, OneMoreRuns DEF J!Runs
  <2>3. \A s \in Triggers \ {t} : J!Runs(s, j)' <=> J!Runs(s, j)
    BY <2>1, OneMoreRuns DEF J!Runs
  <2>4. /\ lock' \in [Triggerable -> BOOLEAN] /\ lock'[j]
        /\ \A i \in Triggerable \ {j} : lock'[i] = lock[i]
    BY <2>1 DEF Guarded, Shape
  <2>5. Shape'
    BY <2>1, <2>4, OneMoreRuns DEF Shape
  <2>6. UnlockedAfterOutage'
    <3>1. outages' = outages
      BY <1>2 DEF J!Claim
    <3>2. call'[t].locked /\ \A s \in Triggers \ {t} : call'[s] = call[s]
      BY <2>1, OneMoreRuns
    <3>3. ASSUME NEW s \in Triggers, NEW i \in Triggerable, J!Runs(s, i)', ~call'[s].locked
          PROVE  i \in outages'
      <4>1. s # t /\ call'[s] = call[s]
        BY <3>2, <3>3
      <4>2. J!Runs(s, i)
        BY <2>2, <2>3, <3>3, <4>1
      <4>3. QED
        BY <3>1, <3>3, <4>1, <4>2 DEF Guarded, UnlockedAfterOutage
    <3>4. QED
      BY <3>3 DEF UnlockedAfterOutage
  <2>9. RunnersHoldTheLock'
    BY <1>2, <2>2, <2>4 DEF Guarded, J!Claim, RunnersHoldTheLock
  <2>10. J!LocksAreReturned'
    <3>1. J!Runs(t, j)' /\ outages' = outages /\ deaths' = deaths
      BY <1>2, <2>1, OneMoreRuns DEF J!Claim
    <3>2. QED
      BY <3>1, <2>2, <2>4 DEF Guarded, J!LocksAreReturned
  <2>7. J!GuardHolds'
    BY <1>2, <2>1, <2>2, <2>3, OneMoreRuns
       DEF Guarded, J!Claim, RunnersHoldTheLock, J!GuardHolds
  <2>8. QED
    BY <2>5, <2>6, <2>7, <2>9, <2>10 DEF Guarded
<1>3. ASSUME NEW t \in Triggers, NEW j \in Triggerable, J!Skip(t, j) PROVE Guarded'
  <2>1. /\ call[t] \in Handling /\ call[t].phase = "next"
        /\ call' = [call EXCEPT ![t] = [phase |-> "next", todo |-> call[t].todo \ {j},
                                        job |-> None, locked |-> FALSE]]
    BY <1>3 DEF J!Skip, J!Takes, J!NextJob, Guarded, Shape, Handling
  <2>2. [phase |-> "next", todo |-> call[t].todo \ {j}, job |-> None, locked |-> FALSE] \in Handling
    BY <2>1 DEF Handling
  <2>3. QED
    BY <1>3, <2>1, <2>2, IdleHandsDisturbNothing DEF J!Skip
<1>4. ASSUME NEW t \in Triggers, NEW j \in Triggerable, J!ClaimFails(t, j) PROVE Guarded'
  <2>1. /\ J!Takes(t, j) /\ J!RunJob(t, j, FALSE)
        /\ outages' = outages \cup {j} /\ overruns' = overruns /\ deaths' = deaths
    BY <1>4 DEF J!ClaimFails
  <2>2. \A s \in Triggers, i \in Triggerable \ {j} :
            (J!Runs(s, i)' <=> J!Runs(s, i)) /\ (J!Runs(s, i) => call'[s] = call[s])
    BY <2>1, OneMoreRuns DEF J!Runs
  <2>3. lock' \in [Triggerable -> BOOLEAN] /\ \A i \in Triggerable \ {j} : lock'[i] = lock[i]
    BY <1>4 DEF J!ClaimFails, Guarded, Shape
  <2>4. Shape'
    BY <2>1, <2>3, OneMoreRuns DEF Shape
  <2>5. QED
    BY <2>1, <2>2, <2>3, <2>4
       DEF Guarded, UnlockedAfterOutage, RunnersHoldTheLock, J!LocksAreReturned, J!GuardHolds
<1>5. ASSUME NEW t \in Triggers, J!JobEnds(t) PROVE Guarded'
  <2>1. \A s \in Triggers : call'[s].locked = call[s].locked /\ call'[s].job = call[s].job
    BY <1>5 DEF J!JobEnds, Guarded, Shape, Handling
  <2>2. \A s \in Triggers, j \in Triggerable : J!Runs(s, j)' <=> J!Runs(s, j)
    BY <1>5 DEF J!JobEnds, Guarded, Shape, Handling, J!Runs
  <2>3. Shape'
    BY <1>5 DEF J!JobEnds, Guarded, Shape, Handling
  <2>4. QED
    BY <1>5, <2>1, <2>2, <2>3
       DEF J!JobEnds, Guarded, UnlockedAfterOutage, RunnersHoldTheLock, J!LocksAreReturned,
           J!GuardHolds
<1>6. ASSUME NEW t \in Triggers, J!Release(t) PROVE Guarded'
  <2>1. call[t].phase = "ended" /\ J!NextJob(t, call[t].job)
    BY <1>6 DEF J!Release
  <2> PICK j \in Triggerable : j = call[t].job
    BY <2>1, OneFewerRuns
  <2>2. J!Runs(t, j)
    BY <2>1, OneFewerRuns
  <2>3. /\ lock' \in [Triggerable -> BOOLEAN]
        /\ call[t].locked => ~lock'[j]
        /\ \A i \in Triggerable \ {j} : lock'[i] = lock[i]
    BY <1>6, <2>2 DEF J!Release, Guarded, Shape, Handling
  <2>4. \A s \in Triggers, i \in Triggerable \ {j} :
            (J!Runs(s, i)' <=> J!Runs(s, i)) /\ (J!Runs(s, i) => call'[s] = call[s])
    BY <2>1, OneFewerRuns DEF J!Runs
  <2>5. \A s \in Triggers : J!Runs(s, j)' => J!Runs(s, j) /\ s # t /\ call'[s] = call[s]
    BY <2>1, <2>2, OneFewerRuns DEF J!Runs
  <2>6. ~call[t].locked => j \in outages
    BY <2>2 DEF Guarded, UnlockedAfterOutage
  <2>7. j \notin outages \cup overruns => \A s \in Triggers : ~J!Runs(s, j)'
    BY <2>2, <2>5 DEF Guarded, J!GuardHolds
  <2>8. Shape'
    BY <2>1, <2>3, OneFewerRuns DEF Shape
  <2>9. outages' = outages /\ overruns' = overruns /\ deaths' = deaths
    BY <1>6 DEF J!Release
  <2>10. UnlockedAfterOutage' /\ RunnersHoldTheLock' /\ J!GuardHolds'
    BY <2>2, <2>3, <2>4, <2>5, <2>7, <2>9
       DEF Guarded, UnlockedAfterOutage, RunnersHoldTheLock, J!GuardHolds
  <2>11. J!LocksAreReturned'
    BY <2>2, <2>3, <2>4, <2>6, <2>9 DEF Guarded, J!LocksAreReturned
  <2>12. QED
    BY <2>8, <2>10, <2>11 DEF Guarded
<1>7. ASSUME NEW t \in Triggers, J!ReleaseFails(t) PROVE Guarded'
  <2>1. /\ call[t].phase = "ended" /\ J!NextJob(t, call[t].job) /\ lock' = lock
        /\ outages' = outages \cup {call[t].job} /\ overruns' = overruns /\ deaths' = deaths
    BY <1>7 DEF J!ReleaseFails
  <2>2. PICK j \in Triggerable : j = call[t].job
    BY <2>1, OneFewerRuns
  <2>3. \A s \in Triggers, i \in Triggerable \ {j} :
            (J!Runs(s, i)' <=> J!Runs(s, i)) /\ (J!Runs(s, i) => call'[s] = call[s])
    BY <2>1, <2>2, OneFewerRuns DEF J!Runs
  <2>4. Shape'
    BY <2>1, OneFewerRuns DEF Shape, Guarded
  <2>5. QED
    BY <2>1, <2>2, <2>3, <2>4
       DEF Guarded, UnlockedAfterOutage, RunnersHoldTheLock, J!LocksAreReturned, J!GuardHolds
<1>8. ASSUME NEW t \in Triggers, J!Report(t) PROVE Guarded'
  <2>1. J!Idle \in Handling /\ J!Idle.phase = "idle" /\ J!Idle.job = None
    BY DEF J!Idle, Handling
  <2>2. QED
    BY <1>8, <2>1, IdleHandsDisturbNothing DEF J!Report
<1>9. ASSUME NEW j \in Triggerable, J!LockExpires(j) PROVE Guarded'
  <2>1. /\ lock' \in [Triggerable -> BOOLEAN] /\ ~lock'[j]
        /\ \A i \in Triggerable \ {j} : lock'[i] = lock[i]
        /\ call' = call /\ outages' = outages /\ deaths' = deaths
    BY <1>9 DEF J!LockExpires, Guarded, Shape
  <2>2. overruns \subseteq overruns' /\ ((\E t \in Triggers : J!Runs(t, j)) => j \in overruns')
    BY <1>9 DEF J!LockExpires
  <2>3. \A t \in Triggers, i \in Triggerable : J!Runs(t, i)' <=> J!Runs(t, i)
    BY <2>1 DEF J!Runs
  <2>4. Shape' /\ UnlockedAfterOutage'
    BY <2>1, <2>3 DEF Guarded, Shape, UnlockedAfterOutage
  <2>5. RunnersHoldTheLock' /\ J!GuardHolds' /\ J!LocksAreReturned'
    BY <2>1, <2>2, <2>3 DEF Guarded, RunnersHoldTheLock, J!GuardHolds, J!LocksAreReturned
  <2>6. QED
    BY <2>4, <2>5 DEF Guarded
<1>10. CASE J!Stop
  <2>1. /\ call' = [t \in Triggers |-> J!Idle] /\ lock' = lock
        /\ outages' = outages /\ overruns' = overruns
        /\ deaths' = deaths \cup {call[t].job : t \in {s \in Triggers : call[s].job # None}}
    BY <1>10 DEF J!Stop
  <2>2. \A t \in Triggers, j \in Triggerable : ~J!Runs(t, j)'
    BY <2>1 DEF J!Runs, J!Idle
  <2>3. \A t \in Triggers, j \in Triggerable : J!Runs(t, j) => j \in deaths'
    BY <2>1 DEF J!Runs
  <2>4. Shape'
    BY <2>1 DEF Guarded, Shape, J!Idle, Handling
  <2>5. J!LocksAreReturned'
    BY <2>1, <2>3 DEF Guarded, J!LocksAreReturned
  <2>6. QED
    BY <2>2, <2>4, <2>5 DEF Guarded, UnlockedAfterOutage, RunnersHoldTheLock, J!GuardHolds
<1>11. CASE J!Start \/ (\E j \in Loops : J!Tick(j) \/ J!RunOnce(j)) \/ UNCHANGED J!vars
  BY <1>11, LoopsDisturbNothing DEF J!Start, J!Tick, J!RunOnce, J!vars
<1>12. QED
  BY <1>1, <1>2, <1>3, <1>4, <1>5, <1>6, <1>7, <1>8, <1>9, <1>10, <1>11 DEF J!Next

(* Two triggered runs of a job overlap only when Redis failed it or a run  *)
(* outlived the lock, and a lock that nobody's run answers for is left by  *)
(* a death or an outage only: run_jobs' SET NX and its unconditional       *)
(* delete, however many calls there are.                                   *)
THEOREM TriggerIsGuarded ==
    ASSUME None \notin Triggerable
    PROVE  J!Spec => []JobsAreGuarded
<1>1. Guarded => JobsAreGuarded
  BY DEF Guarded, J!JobsAreGuarded, JobsAreGuarded
<1>2. Guarded /\ [J!Next]_J!vars => Guarded'
  BY GuardedIsInductive
<1>3. QED
  BY GuardedInitially, <1>1, <1>2, PTL DEF J!Spec

-----------------------------------------------------------------------------
(* TokenBucket: what is let in is paid for by the refill up to its clock,  *)
(* which is ts and all that it was ever set back.                          *)
LimiterConstants ==
    /\ LIMIT \in Nat \ {0} /\ WINDOW \in Nat \ {0} /\ MAX_DELAY \in Nat /\ MAX_DELAY <= WINDOW

LEMMA TheGreater ==
    ASSUME NEW a \in Int, NEW b \in Int
    PROVE  B!Max({a, b}) = IF a >= b THEN a ELSE b
<1>1. PICK m : m = B!Max({a, b})
  OBVIOUS
<1>2. \E x \in {a, b} : \A y \in {a, b} : x >= y
  <2>1. CASE a >= b
    BY <2>1
  <2>2. CASE b >= a
    BY <2>2
  <2>3. QED
    BY <2>1, <2>2
<1>3. m \in {a, b} /\ \A y \in {a, b} : m >= y
  BY <1>1, <1>2 DEF B!Max
<1>4. QED
  BY <1>1, <1>3

LEMMA TheLesser ==
    ASSUME NEW a \in Int, NEW b \in Int
    PROVE  B!Min({a, b}) = IF a <= b THEN a ELSE b
<1>1. PICK m : m = B!Min({a, b})
  OBVIOUS
<1>2. \E x \in {a, b} : \A y \in {a, b} : x =< y
  <2>1. CASE a <= b
    BY <2>1
  <2>2. CASE b <= a
    BY <2>2
  <2>3. QED
    BY <2>1, <2>2
<1>3. m \in {a, b} /\ \A y \in {a, b} : m =< y
  BY <1>1, <1>2 DEF B!Min
<1>4. QED
  BY <1>1, <1>3

LEMMA Times ==
    ASSUME LimiterConstants, NEW a \in Int, NEW b \in Int
    PROVE  /\ a * LIMIT \in Int /\ a * WINDOW \in Int
           /\ (a + b) * LIMIT = a * LIMIT + b * LIMIT
           /\ (a + b) * WINDOW = a * WINDOW + b * WINDOW
           /\ a <= b => a * LIMIT <= b * LIMIT
           /\ 1 * WINDOW = WINDOW /\ 0 * WINDOW = 0 /\ 0 * LIMIT = 0
           /\ B!Full = WINDOW * LIMIT /\ B!Full >= WINDOW /\ B!Full \in Nat
<1>1. PICK l \in Nat : l = LIMIT /\ l >= 1
  BY DEF LimiterConstants
<1>2. PICK w \in Nat : w = WINDOW /\ w >= 1
  BY DEF LimiterConstants
<1>3. a * l \in Int /\ a * w \in Int
  OBVIOUS
<1>4. (a + b) * l = a * l + b * l /\ (a + b) * w = a * w + b * w
  OBVIOUS
<1>5. ASSUME a <= b PROVE a * l <= b * l
  <2>1. PICK d \in Nat : b = a + d
    <3>1. b - a \in Nat /\ b = a + (b - a)
      BY <1>5
    <3>2. QED
      BY <3>1
  <2>2. b * l = a * l + d * l /\ d * l \in Nat
    BY <2>1
  <2>3. QED
    BY <2>2
<1>6. l * w = w * l /\ l * w >= w /\ l * w \in Nat
  <2>1. PICK k \in Nat : l = 1 + k
    <3>1. l - 1 \in Nat /\ l = 1 + (l - 1)
      BY <1>1
    <3>2. QED
      BY <3>1
  <2>2. l * w = w + k * w /\ k * w \in Nat
    BY <2>1
  <2>3. QED
    BY <2>2
<1>7. QED
  BY <1>1, <1>2, <1>3, <1>4, <1>5, <1>6 DEF B!Full

LEMMA MoreTime ==
    ASSUME LimiterConstants, NEW a \in Int, NEW b \in Int, a <= b
    PROVE  a * LIMIT \in Int /\ b * LIMIT \in Int /\ a * LIMIT <= b * LIMIT
<1>1. a * LIMIT \in Int /\ b * LIMIT \in Int
  BY DEF LimiterConstants
<1>2. a <= b => a * LIMIT <= b * LIMIT
  BY Times
<1>3. QED
  BY <1>1, <1>2

\* Rounded up, the division pays.
LEMMA Ceiling ==
    ASSUME LimiterConstants, NEW a \in Int, NEW k \in Int, k >= (a + LIMIT - 1) \div LIMIT
    PROVE  k * LIMIT >= a
<1>1. PICK l \in Nat : l = LIMIT /\ l >= 1
  BY DEF LimiterConstants
<1>2. PICK n \in Int : n = a + l - 1
  BY <1>1
<1>3. PICK q \in Int : q = n \div l
  BY <1>1, <1>2
<1>4. PICK r \in Int : r = n % l /\ r <= l - 1
  BY <1>1, <1>2
<1>5. n = l * q + r
  BY <1>1, <1>3, <1>4
<1>6. l * q >= a /\ l * q = q * l
  BY <1>1, <1>2, <1>4, <1>5
<1>7. q * LIMIT <= k * LIMIT
  BY <1>1, <1>2, <1>3, Times
<1>8. QED
  BY <1>1, <1>6, <1>7, Times

BucketRow == [tokens : Int, ts : Int, until : Int]
AdviceRow == [at : Int, after : Int]

\* The clock of the refill: it never goes back, a time set back is made up.
RefillClock == bucket.ts + regress

LimiterTyping ==
    /\ time \in Nat /\ regress \in Nat
    /\ bucket \in BucketRow \cup {None} /\ advice \in AdviceRow \cup {None}
    /\ asked \in [Callers -> Int \cup {None}]
    /\ IsFiniteSet(admitted) /\ admitted \subseteq [nth : Nat, at : Int]
    /\ \A a \in admitted : a.nth <= Cardinality(admitted)

InTime ==
    /\ \A c \in Callers : asked[c] # None => asked[c] <= time /\ time <= asked[c] + MAX_DELAY
    /\ bucket # None => /\ 0 <= bucket.tokens /\ bucket.tokens <= B!Full
                        /\ bucket.ts <= time /\ bucket.ts <= bucket.until - 2 * WINDOW

\* What has been let in since a time is paid for up to the refill's clock, what
\* is left in the bucket included; of a bucket that expired, all is forgiven.
Paid(n, from) ==
    IF bucket # None
    THEN n * WINDOW + bucket.tokens <= B!Full + (RefillClock - from) * LIMIT
    ELSE n * WINDOW <= (time - MAX_DELAY + regress - from) * LIMIT

Within(n, from, to) == n * WINDOW <= B!Full + (to - from + regress) * LIMIT

AllPaid ==
    \A from, to \in Int :
        from <= to =>
            /\ B!AdmittedIn(from, to) # 0 => Paid(B!AdmittedIn(from, to), from)
            /\ Within(B!AdmittedIn(from, to), from, to)

Advised ==
    advice # None /\ bucket # None =>
        bucket.ts = advice.at /\ advice.after = B!RetryAfter(bucket.tokens)

LimiterInv == LimiterTyping /\ InTime /\ AllPaid /\ Advised

LEMMA SameCount == \A T : B!Cardinality(T) = Cardinality(T)
BY DEF B!Cardinality, Cardinality

LEMMA AdmittedIs ==
    ASSUME LimiterTyping, NEW from, NEW to
    PROVE  /\ B!AdmittedIn(from, to) = Cardinality({a \in admitted : a.at \in from .. to})
           /\ IsFiniteSet({a \in admitted : a.at \in from .. to})
           /\ B!AdmittedIn(from, to) \in Nat
<1>1. IsFiniteSet({a \in admitted : a.at \in from .. to})
  BY FS_Subset DEF LimiterTyping
<1>2. B!AdmittedIn(from, to) = Cardinality({a \in admitted : a.at \in from .. to})
  BY SameCount DEF B!AdmittedIn
<1>3. QED
  BY <1>1, <1>2, FS_CardinalityType

\* Nobody is let in: the counts stay.
LEMMA NobodyIsLetIn ==
    ASSUME UNCHANGED admitted, NEW from, NEW to
    PROVE  B!AdmittedIn(from, to)' = B!AdmittedIn(from, to)
BY DEF B!AdmittedIn, B!Cardinality, B!IsFiniteSet

\* The invariant bounds the rate, and its advice is good.
LEMMA BucketIsPaid == LimiterConstants /\ LimiterInv => BucketIsSound
<1> SUFFICES ASSUME LimiterConstants, LimiterInv PROVE BucketIsSound
  OBVIOUS
<1>1. B!RateIsBounded
  <2>1. ASSUME NEW from \in 0 .. time, NEW to \in 0 .. time, from <= to
        PROVE  B!AdmittedIn(from, to) * WINDOW <= B!Full + (to - from + regress) * LIMIT
    <3>1. from \in Int /\ to \in Int
      BY DEF LimiterInv, LimiterTyping
    <3>2. QED
      BY <2>1, <3>1 DEF LimiterInv, AllPaid, Within
  <2>2. QED
    BY <2>1 DEF B!RateIsBounded
<1>2. B!RetryAfterSuffices
  <2>1. SUFFICES ASSUME advice # None, time >= advice.at + advice.after
                 PROVE  B!Tokens(time) >= WINDOW
    BY DEF B!RetryAfterSuffices
  <2>2. CASE bucket = None
    BY <2>2, Times DEF B!Tokens, LimiterConstants
  <2>3. CASE bucket # None
    <3>1. PICK left \in Int, ts \in Int :
              /\ left = bucket.tokens /\ ts = bucket.ts
              /\ 0 <= left /\ left <= B!Full /\ ts <= time
      BY <2>3 DEF LimiterInv, LimiterTyping, InTime, BucketRow
    <3>2. ts = advice.at /\ advice.after = B!RetryAfter(left)
      BY <2>1, <2>3, <3>1 DEF LimiterInv, Advised
    <3>3. PICK q \in Int : q = (WINDOW - left + LIMIT - 1) \div LIMIT
      BY DEF LimiterConstants
    <3>4. PICK k \in Int : k = B!RetryAfter(left) /\ k >= q
      <4>1. B!RetryAfter(left) = IF 1 >= q THEN 1 ELSE q
        BY <3>3, TheGreater DEF B!RetryAfter
      <4>2. QED
        BY <4>1
    <3>5. PICK gone \in Nat : gone = time - ts
      BY <3>1 DEF LimiterInv, LimiterTyping
    <3>6. gone >= k
      BY <2>1, <3>1, <3>2, <3>4, <3>5 DEF LimiterInv, LimiterTyping
    <3>7. gone * LIMIT >= WINDOW - left /\ gone * LIMIT \in Int
      <4>1. PICK a \in Int : a = WINDOW - left
        BY DEF LimiterConstants
      <4>2. k * LIMIT >= a
        BY <3>3, <3>4, <4>1, Ceiling
      <4>3. k * LIMIT <= gone * LIMIT /\ k * LIMIT \in Int /\ gone * LIMIT \in Int
        BY <3>6, MoreTime
      <4>4. QED
        BY <4>1, <4>2, <4>3
    <3>8. PICK refill \in Int : refill = gone * LIMIT
      BY <3>7
    <3>9. B!Max({0, time - ts}) = gone
      <4>1. B!Max({0, gone}) = gone
        BY TheGreater
      <4>2. QED
        BY <3>5, <4>1
    <3>10. B!Tokens(time) = B!Min({B!Full, left + refill})
      BY <2>3, <3>1, <3>8, <3>9 DEF B!Tokens, B!Refilled
    <3>11. PICK full \in Nat : full = B!Full /\ full >= WINDOW
      BY Times
    <3>12. B!Min({full, left + refill}) = IF full <= left + refill THEN full ELSE left + refill
      BY TheLesser
    <3>13. QED
      BY <3>7, <3>8, <3>10, <3>11, <3>12 DEF LimiterConstants
  <2>4. QED
    BY <2>2, <2>3
<1>3. QED
  BY <1>1, <1>2 DEF BucketIsSound, B!BucketIsSound

NoRows == None \notin Int /\ None \notin BucketRow /\ None \notin AdviceRow

LEMMA Cost ==
    ASSUME LimiterConstants, NEW n \in Nat
    PROVE  n * WINDOW \in Nat /\ (n + 1) * WINDOW = n * WINDOW + WINDOW
<1>1. PICK w \in Nat : w = WINDOW
  BY DEF LimiterConstants
<1>2. n * w \in Nat /\ (n + 1) * w = n * w + w
  OBVIOUS
<1>3. QED
  BY <1>1, <1>2

\* The request that starts the bucket anew.
LEMMA NewPaid ==
    ASSUME LimiterConstants, NEW n \in Nat, NEW m \in Nat, m # 0,
           NEW then \in Int, NEW now \in Int, NEW from \in Int, then <= now,
           n # 0 => n * WINDOW <= (then - from) * LIMIT,
           m = n \/ (m = n + 1 /\ from <= now)
    PROVE  m * WINDOW + (B!Full - WINDOW) <= B!Full + (now - from) * LIMIT
<1>1. PICK bought \in Int, had \in Int :
          bought = (now - from) * LIMIT /\ had = (then - from) * LIMIT /\ had <= bought
  <2>1. then - from \in Int /\ now - from \in Int /\ then - from <= now - from
    OBVIOUS
  <2>2. QED
    BY <2>1, MoreTime
<1>2. PICK w \in Nat : w = WINDOW
  BY DEF LimiterConstants
<1>3. PICK full \in Nat : full = B!Full
  BY Times
<1>4. PICK cost \in Nat : cost = n * WINDOW /\ (n + 1) * WINDOW = cost + w
  BY Cost, <1>2
<1>5. n # 0 => cost <= had
  BY <1>1, <1>4
<1>6. from <= now => 0 <= bought
  <2>1. SUFFICES ASSUME from <= now PROVE 0 <= bought
    OBVIOUS
  <2>2. 0 * LIMIT = 0 /\ 0 * LIMIT <= (now - from) * LIMIT
    <3>1. now - from \in Int /\ 0 <= now - from /\ 0 \in Int
      BY <2>1
    <3>2. QED
      BY <3>1, MoreTime, Times
  <2>3. QED
    BY <1>1, <2>2
<1>7. CASE m = n
  BY <1>1, <1>2, <1>3, <1>4, <1>5, <1>7
<1>8. CASE m = n + 1 /\ from <= now
  <2>1. n = 0 => cost = 0
    BY <1>4, Times, <1>2
  <2>2. cost <= bought
    BY <1>1, <1>5, <1>6, <1>8, <2>1
  <2>3. QED
    BY <1>1, <1>2, <1>3, <1>4, <1>8, <2>2
<1>9. QED
  BY <1>7, <1>8

\* By the time at, k requests since from have been paid for with rest left over.
CoveredBy(k, rest, at, from) == k * WINDOW + rest <= B!Full + (at - from) * LIMIT

Refilled(found, left, then, now) == found <= left + (now - then) * LIMIT

\* The request that finds a bucket, refilled up to then.
LEMMA RefilledPaid ==
    ASSUME LimiterConstants, NEW n \in Nat, NEW m \in Nat, m # 0,
           NEW then \in Int, NEW now \in Int, NEW from \in Int, then <= now,
           NEW left \in Int, left <= B!Full,
           NEW refilled \in Int, refilled <= B!Full, Refilled(refilled, left, then, now),
           NEW rest \in Int, rest <= refilled,
           n # 0 => CoveredBy(n, left, then, from),
           m = n \/ (m = n + 1 /\ from <= now /\ rest = refilled - WINDOW)
    PROVE  CoveredBy(m, rest, now, from)
<1> USE DEF CoveredBy, Refilled
<1>1. PICK bought \in Int, had \in Int, gain \in Int :
          /\ bought = (now - from) * LIMIT /\ had = (then - from) * LIMIT
          /\ gain = (now - then) * LIMIT /\ bought = had + gain
  <2>1. then - from \in Int /\ now - then \in Int /\ (then - from) + (now - then) = now - from
    OBVIOUS
  <2>2. /\ (then - from) * LIMIT \in Int /\ (now - then) * LIMIT \in Int
        /\ ((then - from) + (now - then)) * LIMIT = (then - from) * LIMIT + (now - then) * LIMIT
    BY <2>1, Times
  <2>3. QED
    BY <2>1, <2>2
<1>2. PICK w \in Nat : w = WINDOW
  BY DEF LimiterConstants
<1>3. PICK full \in Nat : full = B!Full
  BY Times
<1>4. PICK cost \in Nat : cost = n * WINDOW /\ (n + 1) * WINDOW = cost + w
  BY Cost, <1>2
<1>5. n # 0 => cost + left <= full + had
  BY <1>1, <1>3, <1>4
<1>6. from <= now => 0 <= bought
  <2>1. SUFFICES ASSUME from <= now PROVE 0 <= bought
    OBVIOUS
  <2>2. 0 * LIMIT = 0 /\ 0 * LIMIT <= (now - from) * LIMIT
    <3>1. now - from \in Int /\ 0 <= now - from /\ 0 \in Int
      BY <2>1
    <3>2. QED
      BY <3>1, MoreTime, Times
  <2>3. QED
    BY <1>1, <2>2
<1>7. CASE m = n
  BY <1>1, <1>3, <1>4, <1>5, <1>7
<1>8. CASE m = n + 1 /\ from <= now /\ rest = refilled - WINDOW
  <2>1. n = 0 => cost = 0
    BY <1>4, Times, <1>2
  <2>2. cost + refilled <= full + bought
    BY <1>1, <1>3, <1>5, <1>6, <1>8, <2>1
  <2>3. QED
    BY <1>1, <1>2, <1>3, <1>4, <1>8, <2>2
<1>9. QED
  BY <1>7, <1>8

\* What is paid for keeps within the rate.
LEMMA PaidIsWithin ==
    ASSUME LimiterConstants, NEW m \in Nat, NEW rest \in Int, 0 <= rest,
           NEW upto \in Int, NEW from \in Int, NEW end \in Int, upto <= end,
           m * WINDOW + rest <= B!Full + (upto - from) * LIMIT
    PROVE  m * WINDOW <= B!Full + (end - from) * LIMIT
<1>1. PICK bought \in Int, more \in Int :
          bought = (upto - from) * LIMIT /\ more = (end - from) * LIMIT /\ bought <= more
  <2>1. upto - from \in Int /\ end - from \in Int /\ upto - from <= end - from
    OBVIOUS
  <2>2. QED
    BY <2>1, MoreTime
<1>2. PICK full \in Nat : full = B!Full
  BY Times
<1>3. PICK cost \in Nat : cost = m * WINDOW
  BY Cost
<1>4. QED
  BY <1>1, <1>2, <1>3

\* One is let in: it is new, and counts where its time does.
LEMMA OneIsLetIn ==
    ASSUME LimiterTyping, NEW now \in Int, NEW from \in Int, NEW to \in Int,
           admitted' = admitted \cup {[nth |-> Cardinality(admitted) + 1, at |-> now]}
    PROVE  B!AdmittedIn(from, to)' =
               IF now \in from .. to THEN B!AdmittedIn(from, to) + 1 ELSE B!AdmittedIn(from, to)
<1> DEFINE one == [nth |-> Cardinality(admitted) + 1, at |-> now]
           old == {a \in admitted : a.at \in from .. to}
<1>1. Cardinality(admitted) \in Nat
  BY FS_CardinalityType DEF LimiterTyping
<1>2. one \notin admitted
  <2>1. SUFFICES ASSUME one \in admitted PROVE FALSE
    OBVIOUS
  <2>2. one.nth <= Cardinality(admitted)
    BY <2>1 DEF LimiterTyping
  <2>3. QED
    BY <1>1, <2>2
<1>3. IsFiniteSet(old) /\ B!AdmittedIn(from, to) = Cardinality(old)
  BY AdmittedIs
<1>4. B!AdmittedIn(from, to)' = Cardinality({a \in admitted' : a.at \in from .. to})
  BY SameCount DEF B!AdmittedIn, B!Cardinality, Cardinality, B!IsFiniteSet, IsFiniteSet
<1>5. CASE now \in from .. to
  <2>1. {a \in admitted' : a.at \in from .. to} = old \cup {one}
    BY <1>5
  <2>2. one \notin old
    BY <1>2
  <2>3. Cardinality(old \cup {one}) = Cardinality(old) + 1
    BY <1>3, <2>2, FS_AddElement
  <2>4. QED
    BY <1>3, <1>4, <1>5, <2>1, <2>3
<1>6. CASE now \notin from .. to
  <2>1. {a \in admitted' : a.at \in from .. to} = old
    BY <1>6
  <2>2. QED
    BY <1>3, <1>4, <1>6, <2>1
<1>7. QED
  BY <1>5, <1>6

LEMMA OneMore ==
    ASSUME LimiterTyping, NEW now \in Int,
           admitted' = admitted \cup {[nth |-> Cardinality(admitted) + 1, at |-> now]}
    PROVE  /\ IsFiniteSet(admitted') /\ admitted' \subseteq [nth : Nat, at : Int]
           /\ \A a \in admitted' : a.nth <= Cardinality(admitted')
<1> DEFINE one == [nth |-> Cardinality(admitted) + 1, at |-> now]
<1>1. Cardinality(admitted) \in Nat
  BY FS_CardinalityType DEF LimiterTyping
<1>2. one \notin admitted
  <2>1. SUFFICES ASSUME one \in admitted PROVE FALSE
    OBVIOUS
  <2>2. one.nth <= Cardinality(admitted)
    BY <2>1 DEF LimiterTyping
  <2>3. QED
    BY <1>1, <2>2
<1>3. IsFiniteSet(admitted') /\ Cardinality(admitted') = Cardinality(admitted) + 1
  BY <1>2, FS_AddElement DEF LimiterTyping
<1>4. admitted' \subseteq [nth : Nat, at : Int]
  BY <1>1 DEF LimiterTyping
<1>5. ASSUME NEW a \in admitted' PROVE a.nth <= Cardinality(admitted')
  <2>1. CASE a \in admitted
    <3>1. a.nth <= Cardinality(admitted) /\ a.nth \in Nat
      BY <2>1 DEF LimiterTyping
    <3>2. QED
      BY <1>1, <1>3, <3>1
  <2>2. CASE a = one
    BY <1>1, <1>3, <2>2
  <2>3. QED
    BY <2>1, <2>2
<1>6. QED
  BY <1>3, <1>4, <1>5

LEMMA LimiterInit ==
    ASSUME LimiterConstants, NoRows, B!Init
    PROVE  LimiterInv
<1>1. time = 0 /\ bucket = None /\ regress = 0 /\ admitted = {} /\ advice = None
      /\ asked = [c \in Callers |-> None]
  BY DEF B!Init
<1>2. IsFiniteSet({}) /\ IsFiniteSet(admitted)
  BY <1>1, FS_EmptySet
<1>3. LimiterTyping
  BY <1>1, <1>2 DEF LimiterTyping
<1>4. InTime
  BY <1>1 DEF InTime
<1>5. ASSUME NEW from \in Int, NEW to \in Int, from <= to
      PROVE  B!AdmittedIn(from, to) = 0 /\ Within(B!AdmittedIn(from, to), from, to)
  <2>1. {a \in admitted : a.at \in from .. to} = {}
    BY <1>1
  <2>2. B!AdmittedIn(from, to) = 0
    BY <1>3, <2>1, AdmittedIs, FS_EmptySet
  <2>3. to - from + regress \in Int /\ 0 <= to - from + regress /\ 0 \in Int
    BY <1>1, <1>5
  <2>4. 0 * LIMIT <= (to - from + regress) * LIMIT /\ (to - from + regress) * LIMIT \in Int
    BY <2>3, MoreTime
  <2>5. 0 * LIMIT = 0 /\ 0 * WINDOW = 0 /\ B!Full \in Nat
    BY Times
  <2>6. 0 * WINDOW <= B!Full + (to - from + regress) * LIMIT
    BY <2>4, <2>5
  <2>7. QED
    BY <2>2, <2>6 DEF Within
<1>6. AllPaid
  BY <1>5 DEF AllPaid
<1>7. Advised
  BY <1>1 DEF Advised
<1>8. QED
  BY <1>3, <1>4, <1>6, <1>7 DEF LimiterInv

LEMMA AskKeeps ==
    ASSUME NoRows, LimiterConstants, LimiterInv, NEW c \in Callers, B!Ask(c)
    PROVE  LimiterInv'
<1>1. /\ asked' = [asked EXCEPT ![c] = time]
      /\ UNCHANGED <<time, bucket, admitted, regress, advice>>
  BY DEF B!Ask
<1>2. LimiterTyping'
  BY <1>1 DEF LimiterInv, LimiterTyping
<1>3. InTime'
  BY <1>1 DEF LimiterInv, LimiterTyping, InTime, LimiterConstants
<1>4. AllPaid'
  BY <1>1, NobodyIsLetIn DEF LimiterInv, AllPaid, Paid, Within, RefillClock
<1>5. Advised'
  BY <1>1 DEF LimiterInv, Advised
<1>6. QED
  BY <1>2, <1>3, <1>4, <1>5 DEF LimiterInv

\* A bucket that expires has long been full.
LEMMA ExpiresKeeps ==
    ASSUME NoRows, LimiterConstants, LimiterInv, B!Expires
    PROVE  LimiterInv'
<1>1. /\ bucket # None /\ time >= bucket.until /\ bucket' = None
      /\ UNCHANGED <<time, asked, admitted, regress, advice>>
  BY DEF B!Expires
<1>2. LimiterTyping'
  BY <1>1 DEF LimiterInv, LimiterTyping
<1>3. InTime'
  BY <1>1 DEF LimiterInv, InTime
<1>4. PICK left \in Int, ts \in Int, reg \in Nat, t \in Nat, w \in Nat, d \in Nat :
          /\ left = bucket.tokens /\ ts = bucket.ts /\ reg = regress /\ t = time
          /\ w = WINDOW /\ d = MAX_DELAY /\ d <= w
          /\ 0 <= left /\ ts + 2 * w <= t
  BY <1>1 DEF LimiterInv, LimiterTyping, InTime, BucketRow, LimiterConstants
<1>5. ASSUME NEW from \in Int, NEW n \in Nat, n # 0, Paid(n, from)
      PROVE  n * WINDOW <= (time - MAX_DELAY + regress - from) * LIMIT
  <2>1. PICK had \in Int, whole \in Int, bought \in Int :
            /\ had = (ts + reg - from) * LIMIT /\ whole = w * LIMIT
            /\ bought = (t - d + reg - from) * LIMIT /\ had + whole <= bought
    <3>1. /\ ts + reg - from \in Int /\ w \in Int /\ (ts + reg - from) + w \in Int
          /\ t - d + reg - from \in Int
          /\ (ts + reg - from) + w <= t - d + reg - from
      BY <1>4
    <3>2. /\ (ts + reg - from) * LIMIT \in Int /\ w * LIMIT \in Int
          /\ ((ts + reg - from) + w) * LIMIT = (ts + reg - from) * LIMIT + w * LIMIT
      BY <3>1, Times
    <3>3. /\ (t - d + reg - from) * LIMIT \in Int
          /\ ((ts + reg - from) + w) * LIMIT <= (t - d + reg - from) * LIMIT
      BY <3>1, MoreTime
    <3>4. QED
      BY <3>2, <3>3
  <2>2. whole = B!Full
    BY <1>4, <2>1, Times
  <2>3. PICK cost \in Nat : cost = n * WINDOW
    BY Cost
  <2>4. cost + left <= whole + had
    BY <1>1, <1>4, <1>5, <2>1, <2>2, <2>3 DEF Paid, RefillClock
  <2>5. cost <= bought
    BY <1>4, <2>1, <2>4
  <2>6. QED
    BY <1>4, <2>1, <2>3, <2>5
<1>6. ASSUME NEW from \in Int, NEW to \in Int, from <= to
      PROVE  /\ B!AdmittedIn(from, to)' # 0 => Paid(B!AdmittedIn(from, to), from)'
             /\ Within(B!AdmittedIn(from, to), from, to)'
  <2>1. B!AdmittedIn(from, to)' = B!AdmittedIn(from, to)
    BY <1>1, NobodyIsLetIn
  <2>2. PICK n \in Nat : n = B!AdmittedIn(from, to)
    BY AdmittedIs DEF LimiterInv
  <2>3. (n # 0 => Paid(n, from)) /\ Within(n, from, to)
    BY <1>6, <2>2 DEF LimiterInv, AllPaid
  <2>4. Within(n, from, to)'
    BY <1>1, <2>2, <2>3 DEF Within
  <2>5. n # 0 => (n * WINDOW <= (time - MAX_DELAY + regress - from) * LIMIT)
    BY <1>5, <2>3
  <2>6. QED
    BY <1>1, <2>1, <2>2, <2>4, <2>5 DEF Paid, Within
<1>7. AllPaid'
  BY <1>6 DEF AllPaid
<1>8. Advised'
  BY <1>1 DEF Advised
<1>9. QED
  BY <1>2, <1>3, <1>7, <1>8 DEF LimiterInv

LEMMA SecondKeeps ==
    ASSUME NoRows, LimiterConstants, LimiterInv, B!Second
    PROVE  LimiterInv'
<1>1. /\ \A c \in Callers : asked[c] # None => time < asked[c] + MAX_DELAY
      /\ time' = time + 1 /\ UNCHANGED <<bucket, asked, admitted, regress, advice>>
  BY DEF B!Second
<1>2. LimiterTyping'
  BY <1>1 DEF LimiterInv, LimiterTyping
<1>3. InTime'
  <2>1. ASSUME NEW c \in Callers, asked[c] # None
        PROVE  asked[c] <= time + 1 /\ time + 1 <= asked[c] + MAX_DELAY
    <3>1. asked[c] \in Int /\ asked[c] <= time /\ time < asked[c] + MAX_DELAY /\ time \in Nat
      BY <1>1, <2>1 DEF LimiterInv, LimiterTyping, InTime
    <3>2. QED
      BY <3>1 DEF LimiterConstants
  <2>2. bucket # None => bucket.ts <= time + 1
    BY DEF LimiterInv, LimiterTyping, InTime, BucketRow
  <2>3. QED
    BY <1>1, <2>1, <2>2 DEF LimiterInv, InTime
<1>4. ASSUME NEW from \in Int, NEW to \in Int, from <= to
      PROVE  /\ B!AdmittedIn(from, to)' # 0 => Paid(B!AdmittedIn(from, to), from)'
             /\ Within(B!AdmittedIn(from, to), from, to)'
  <2>1. B!AdmittedIn(from, to)' = B!AdmittedIn(from, to)
    BY <1>1, NobodyIsLetIn
  <2>2. PICK n \in Nat : n = B!AdmittedIn(from, to)
    BY AdmittedIs DEF LimiterInv
  <2>3. (n # 0 => Paid(n, from)) /\ Within(n, from, to)
    BY <1>4, <2>2 DEF LimiterInv, AllPaid
  <2>4. n # 0 /\ bucket = None =>
            n * WINDOW <= ((time + 1) - MAX_DELAY + regress - from) * LIMIT
    <3>1. SUFFICES ASSUME n # 0, bucket = None
                   PROVE  n * WINDOW <= ((time + 1) - MAX_DELAY + regress - from) * LIMIT
      OBVIOUS
    <3>2. PICK k \in Int : k = time - MAX_DELAY + regress - from
                           /\ k + 1 = (time + 1) - MAX_DELAY + regress - from
      BY DEF LimiterInv, LimiterTyping, LimiterConstants
    <3>3. k * LIMIT <= (k + 1) * LIMIT /\ k * LIMIT \in Int /\ (k + 1) * LIMIT \in Int
      BY MoreTime
    <3>4. n * WINDOW <= k * LIMIT /\ n * WINDOW \in Nat
      BY <2>3, <3>1, <3>2, Cost DEF Paid
    <3>5. QED
      BY <3>2, <3>3, <3>4
  <2>5. QED
    BY <1>1, <2>1, <2>2, <2>3, <2>4 DEF Paid, Within, RefillClock
<1>5. AllPaid'
  BY <1>4 DEF AllPaid
<1>6. Advised'
  BY <1>1 DEF LimiterInv, Advised
<1>7. QED
  BY <1>2, <1>3, <1>5, <1>6 DEF LimiterInv

\* What the script finds in the bucket.
LEMMA Found ==
    ASSUME NoRows, LimiterConstants, LimiterInv, NEW c \in Callers, asked[c] # None
    PROVE  /\ asked[c] \in Int /\ asked[c] <= time /\ time <= asked[c] + MAX_DELAY
           /\ B!Tokens(asked[c]) \in Int
           /\ 0 <= B!Tokens(asked[c]) /\ B!Tokens(asked[c]) <= B!Full
           /\ bucket = None => B!Tokens(asked[c]) = B!Full
           /\ bucket # None =>
                  /\ bucket.tokens \in Int /\ bucket.tokens <= B!Full /\ bucket.ts \in Int
                  /\ B!Max({0, asked[c] - bucket.ts}) \in Int
                  /\ B!Max({0, bucket.ts - asked[c]}) \in Nat
                  /\ B!Max({0, asked[c] - bucket.ts}) =
                         asked[c] + B!Max({0, bucket.ts - asked[c]}) - bucket.ts
                  /\ B!Max({0, asked[c] - bucket.ts}) >= 0
                  /\ B!Tokens(asked[c]) <=
                         bucket.tokens + B!Max({0, asked[c] - bucket.ts}) * LIMIT
<1>1. PICK now \in Int : now = asked[c] /\ now <= time /\ time <= now + MAX_DELAY
  BY DEF LimiterInv, LimiterTyping, InTime
<1>2. PICK full \in Nat : full = B!Full
  BY Times
<1>3. CASE bucket = None
  BY <1>1, <1>2, <1>3 DEF B!Tokens
<1>4. CASE bucket # None
  <2>1. PICK left \in Int, ts \in Int :
            left = bucket.tokens /\ ts = bucket.ts /\ 0 <= left /\ left <= full
    BY <1>2, <1>4 DEF LimiterInv, LimiterTyping, InTime, BucketRow
  <2>2. B!Max({0, now - ts}) = IF 0 >= now - ts THEN 0 ELSE now - ts
    BY TheGreater
  <2>3. B!Max({0, ts - now}) = IF 0 >= ts - now THEN 0 ELSE ts - now
    BY TheGreater
  <2>4. PICK gone \in Nat, back \in Nat :
            /\ gone = B!Max({0, now - ts}) /\ back = B!Max({0, ts - now})
            /\ gone = now + back - ts
    BY <2>2, <2>3
  <2>5. PICK gain \in Int : gain = gone * LIMIT /\ 0 <= gain
    <3>1. 0 \in Int /\ gone \in Int /\ 0 <= gone
      BY <2>4
    <3>2. 0 * LIMIT <= gone * LIMIT /\ gone * LIMIT \in Int /\ 0 * LIMIT = 0
      BY <3>1, MoreTime, Times
    <3>3. QED
      BY <3>2
  <2>6. B!Tokens(now) = B!Min({full, left + gain})
    BY <1>2, <1>4, <2>1, <2>4, <2>5 DEF B!Tokens, B!Refilled
  <2>7. B!Min({full, left + gain}) = IF full <= left + gain THEN full ELSE left + gain
    BY TheLesser
  <2>8. B!Tokens(now) \in Int /\ 0 <= B!Tokens(now) /\ B!Tokens(now) <= full
        /\ B!Tokens(now) <= left + gain
    BY <2>1, <2>5, <2>6, <2>7
  <2>9. QED
    BY <1>1, <1>2, <1>4, <2>1, <2>4, <2>5, <2>8
<1>5. QED
  BY <1>3, <1>4

LEMMA RunKeeps ==
    ASSUME NoRows, LimiterConstants, LimiterInv, NEW c \in Callers, B!Run(c)
    PROVE  LimiterInv'
<1>1. asked[c] # None
  BY DEF B!Run
<1>2. PICK now \in Int, found \in Int, full \in Nat, w \in Nat, t \in Nat, reg \in Nat :
          /\ now = asked[c] /\ found = B!Tokens(now) /\ full = B!Full /\ w = WINDOW /\ t = time
          /\ reg = regress
          /\ now <= t /\ t <= now + MAX_DELAY /\ 0 <= found /\ found <= full /\ w <= full
  BY <1>1, Found, Times DEF LimiterInv, LimiterTyping, LimiterConstants
<1>3. PICK rest \in Int : rest = IF found >= w THEN found - w ELSE found
  BY <1>2
<1>4. 0 <= rest /\ rest <= found
  BY <1>2, <1>3
<1>5. /\ bucket' = [tokens |-> rest, ts |-> now, until |-> t + 2 * w]
      /\ admitted' = IF found >= w
                     THEN admitted \cup {[nth |-> Cardinality(admitted) + 1, at |-> now]}
                     ELSE admitted
      /\ regress' = IF bucket = None THEN regress ELSE regress + B!Max({0, bucket.ts - now})
      /\ advice' = IF found >= w THEN None ELSE [at |-> now, after |-> B!RetryAfter(found)]
      /\ asked' = [asked EXCEPT ![c] = None] /\ time' = time
  BY <1>2, <1>3, SameCount DEF B!Run
<1>6. bucket' \in BucketRow /\ bucket' # None
      /\ bucket'.tokens = rest /\ bucket'.ts = now /\ bucket'.until = t + 2 * w
  BY <1>2, <1>3, <1>5 DEF BucketRow, NoRows
<1>7. PICK reg2 \in Nat : reg2 = regress' /\ reg <= reg2
  <2>1. bucket # None => B!Max({0, bucket.ts - now}) \in Nat
    BY <1>1, <1>2, Found
  <2>2. QED
    BY <1>2, <1>5, <2>1
<1>8. LimiterTyping'
  <2>1. advice' \in AdviceRow \cup {None}
    <3>1. B!RetryAfter(found) \in Int
      <4>1. PICK q \in Int : q = (w - found + LIMIT - 1) \div LIMIT
        BY <1>2 DEF LimiterConstants
      <4>2. B!Max({1, q}) = IF 1 >= q THEN 1 ELSE q
        BY TheGreater
      <4>3. QED
        BY <1>2, <4>1, <4>2 DEF B!RetryAfter
    <3>2. QED
      BY <1>5, <3>1 DEF AdviceRow
  <2>2. asked' \in [Callers -> Int \cup {None}]
    BY <1>5 DEF LimiterInv, LimiterTyping
  <2>3. /\ IsFiniteSet(admitted') /\ admitted' \subseteq [nth : Nat, at : Int]
        /\ \A a \in admitted' : a.nth <= Cardinality(admitted')
    BY <1>5, OneMore DEF LimiterInv, LimiterTyping
  <2>4. QED
    BY <1>2, <1>5, <1>6, <1>7, <2>1, <2>2, <2>3 DEF LimiterTyping
<1>9. InTime'
  <2>1. \A d \in Callers : asked'[d] # None => d # c /\ asked'[d] = asked[d]
    BY <1>5 DEF LimiterInv, LimiterTyping
  <2>2. 0 <= rest /\ rest <= B!Full /\ now <= t /\ now <= t + 2 * w - 2 * WINDOW
    BY <1>2, <1>4
  <2>3. B!Full' = B!Full
    BY DEF B!Full
  <2>4. QED
    BY <1>2, <1>5, <1>6, <2>1, <2>2, <2>3 DEF LimiterInv, InTime
<1>10. ASSUME NEW from \in Int, NEW to \in Int, from <= to
       PROVE  /\ B!AdmittedIn(from, to)' # 0 => Paid(B!AdmittedIn(from, to), from)'
              /\ Within(B!AdmittedIn(from, to), from, to)'
  <2>1. PICK n \in Nat : n = B!AdmittedIn(from, to)
    BY AdmittedIs DEF LimiterInv
  <2>2. (n # 0 => Paid(n, from)) /\ Within(n, from, to)
    BY <1>10, <2>1 DEF LimiterInv, AllPaid
  <2>3. PICK m \in Nat :
            /\ m = B!AdmittedIn(from, to)'
            /\ \/ m = n /\ admitted' = admitted
               \/ m = n /\ found >= w
               \/ m = n + 1 /\ found >= w /\ from <= now /\ now <= to
    <3>1. CASE found >= w
      <4>1. B!AdmittedIn(from, to)' = IF now \in from .. to THEN n + 1 ELSE n
        BY <1>5, <2>1, <3>1, OneIsLetIn DEF LimiterInv
      <4>2. QED
        BY <3>1, <4>1
    <3>2. CASE ~(found >= w)
      BY <1>5, <2>1, <3>2, NobodyIsLetIn
    <3>3. QED
      BY <3>1, <3>2
  <2>4. m = n \/ (m = n + 1 /\ from <= now + reg2 /\ found >= w /\ rest = found - w)
    BY <1>2, <1>3, <1>7, <2>3
  <2>5. m # 0 => m * WINDOW + rest <= B!Full + (now + reg2 - from) * LIMIT
    <3>1. SUFFICES ASSUME m # 0
                   PROVE  m * WINDOW + rest <= B!Full + (now + reg2 - from) * LIMIT
      OBVIOUS
    <3>2. CASE bucket = None
      <4>1. found = full /\ reg2 = reg
        BY <1>1, <1>2, <1>5, <1>7, <3>2, Found
      <4>2. PICK then \in Int : then = time - MAX_DELAY + regress /\ then <= now + reg2
        BY <1>2, <4>1 DEF LimiterConstants
      <4>3. n # 0 => n * WINDOW <= (then - from) * LIMIT
        <5>1. n # 0 => n * WINDOW <= (time - MAX_DELAY + regress - from) * LIMIT
          BY <2>2, <3>2 DEF Paid
        <5>2. then - from = time - MAX_DELAY + regress - from
          BY <1>2, <1>10, <4>2 DEF LimiterConstants
        <5>3. QED
          BY <5>1, <5>2
      <4>4. now + reg2 \in Int
        OBVIOUS
      <4>5. m * WINDOW + (B!Full - WINDOW) <= B!Full + (now + reg2 - from) * LIMIT
        <5>1. \A u \in Int : then <= u /\ (m = n \/ (m = n + 1 /\ from <= u)) =>
                  m * WINDOW + (B!Full - WINDOW) <= B!Full + (u - from) * LIMIT
          BY <3>1, <4>3, NewPaid
        <5>2. QED
          BY <2>4, <4>2, <4>4, <5>1
      <4>6. rest = B!Full - WINDOW
        BY <1>2, <1>3, <4>1
      <4>7. QED
        BY <4>5, <4>6
    <3>3. CASE bucket # None
      <4>1. PICK left \in Int, ts \in Int, back \in Nat, gone \in Int :
                /\ left = bucket.tokens /\ ts = bucket.ts /\ left <= full
                /\ back = B!Max({0, ts - now}) /\ gone = B!Max({0, now - ts})
                /\ gone = now + back - ts /\ gone >= 0 /\ found <= left + gone * LIMIT
        BY <1>1, <1>2, <3>3, Found
      <4>2. reg2 = reg + back
        BY <1>2, <1>5, <1>7, <3>3, <4>1
      <4>3. PICK then \in Int, upto \in Int :
                then = ts + reg /\ upto = now + reg2 /\ then <= upto /\ upto - then = gone
        BY <4>1, <4>2
      <4>4. n # 0 => n * WINDOW + left <= B!Full + (then - from) * LIMIT
        BY <1>2, <2>2, <3>3, <4>1, <4>3 DEF Paid, RefillClock
      <4>5. found <= left + (upto - then) * LIMIT /\ found <= B!Full /\ left <= B!Full
        BY <1>2, <4>1, <4>3
      <4>6. m = n \/ (m = n + 1 /\ from <= upto /\ rest = found - WINDOW)
        BY <1>2, <2>4, <4>3
      <4>7. m * WINDOW + rest <= B!Full + (upto - from) * LIMIT
        <5>1. found \in Int /\ rest \in Int /\ rest <= found
          BY <1>2, <1>4
        <5>2. /\ n \in Nat /\ m \in Nat /\ m # 0 /\ left \in Int /\ from \in Int
              /\ then \in Int /\ upto \in Int /\ then <= upto
          BY <1>10, <2>1, <2>3, <3>1, <4>1, <4>3
        <5>3. (n # 0 => CoveredBy(n, left, then, from)) /\ Refilled(found, left, then, upto)
          BY <4>4, <4>5 DEF CoveredBy, Refilled
        <5>4. found <= B!Full /\ left <= B!Full
          BY <4>5
        <5>5. CoveredBy(m, rest, upto, from)
          BY <4>6, <5>1, <5>2, <5>3, <5>4, RefilledPaid
        <5>6. QED
          BY <5>5 DEF CoveredBy
      <4>8. QED
        BY <4>3, <4>7
    <3>4. QED
      BY <3>2, <3>3
  <2>6. B!Full' = B!Full
    BY DEF B!Full
  <2>7. m # 0 => Paid(B!AdmittedIn(from, to), from)'
    BY <1>6, <1>7, <2>3, <2>5, <2>6 DEF Paid, RefillClock
  <2>8. m * WINDOW <= B!Full + (to - from + reg2) * LIMIT
    <3>1. CASE m = n + 1 /\ now <= to
      <4>1. PICK upto \in Int, end \in Int :
                /\ upto = now + reg2 /\ end = to + reg2 /\ upto <= end
                /\ end - from = to - from + reg2
        BY <3>1
      <4>2. m * WINDOW + rest <= B!Full + (upto - from) * LIMIT
        BY <2>5, <3>1, <4>1
      <4>3. m * WINDOW <= B!Full + (end - from) * LIMIT
        BY <1>4, <4>1, <4>2, PaidIsWithin
      <4>4. QED
        BY <4>1, <4>3
    <3>2. CASE m = n
      <4>1. PICK had \in Int, more \in Int :
                /\ had = (to - from + reg) * LIMIT /\ more = (to - from + reg2) * LIMIT
                /\ had <= more
        <5>1. to - from + reg \in Int /\ to - from + reg2 \in Int
              /\ to - from + reg <= to - from + reg2
          <6>1. \A p, q \in Nat : p <= q => /\ to - from + p \in Int /\ to - from + q \in Int
                                           /\ to - from + p <= to - from + q
            BY <1>10
          <6>2. reg \in Nat /\ reg2 \in Nat /\ reg <= reg2
            BY <1>2, <1>7
          <6>3. QED
            BY <6>1, <6>2
        <5>2. QED
          BY <5>1, MoreTime
      <4>2. PICK cost \in Nat : cost = n * WINDOW
        BY Cost
      <4>3. cost <= full + had
        BY <1>2, <2>2, <4>1, <4>2 DEF Within
      <4>4. QED
        BY <1>2, <3>2, <4>1, <4>2, <4>3
    <3>3. QED
      BY <2>3, <3>1, <3>2
  <2>9. QED
    BY <1>7, <2>3, <2>6, <2>7, <2>8 DEF Within
<1>11. AllPaid'
  BY <1>10 DEF AllPaid
<1>12. Advised'
  <2>1. SUFFICES ASSUME advice' # None
                 PROVE  bucket'.ts = advice'.at /\ advice'.after = B!RetryAfter(bucket'.tokens)
    BY DEF Advised, B!RetryAfter
  <2>2. ~(found >= w) /\ rest = found
    BY <1>3, <1>5, <2>1
  <2>3. QED
    BY <1>5, <1>6, <2>2
<1>13. QED
  BY <1>8, <1>9, <1>11, <1>12 DEF LimiterInv

(* The limiter lets no stretch of time have more than a full bucket, its   *)
(* refill and what a time set back makes pass twice, in whatever order the *)
(* requests run the script that they asked the time for; and whoever comes *)
(* back after its Retry-After, nobody having come in between, is let in:   *)
(* provided that no request takes longer from Redis TIME to the script     *)
(* than the bucket takes to fill, for then a bucket that is forgotten has  *)
(* refilled for all the time that a request may still come with.           *)
THEOREM RateIsKept ==
    ASSUME MAX_DELAY <= WINDOW PROVE B!Spec => []BucketIsSound
<1> LimiterConstants /\ NoRows
  BY LimiterAssumption DEF LimiterConstants, NoRows, BucketRow, AdviceRow
<1>1. B!Init => LimiterInv
  BY LimiterInit
<1>2. LimiterInv /\ [B!Next]_B!vars => LimiterInv'
  <2>1. ASSUME LimiterInv, UNCHANGED B!vars PROVE LimiterInv'
    BY <2>1, NobodyIsLetIn
       DEF B!vars, LimiterInv, LimiterTyping, InTime, AllPaid, Paid, Within, RefillClock, Advised
  <2>2. QED
    BY <2>1, AskKeeps, RunKeeps, ExpiresKeeps, SecondKeeps DEF B!Next
<1>3. LimiterInv => BucketIsSound
  BY BucketIsPaid
<1>4. QED
  BY <1>1, <1>2, <1>3, PTL DEF B!Spec

-----------------------------------------------------------------------------
(* StreakTransactions: under one lock the transactions come one after the  *)
(* other, and each leaves row and ledger accounted for.                    *)
OpFields == {"kind", "phase", "key", "today", "at", "found", "seen", "after", "rows"}

WholeRow(s) == DOMAIN s = S!Columns /\ s.last_active \in Int

Shapely(o) ==
    /\ DOMAIN o = OpFields /\ WholeRow(o.seen) /\ WholeRow(o.after)
    /\ \/ o.kind = "submit" /\ o.phase \in {"start", "read", "flushed"} /\ o.today \in Int
       \/ /\ o.kind = "zone" /\ o.phase \in {"start", "read", "flushed"}
          /\ o.today \in Int /\ o.key \in Int
       \/ o.kind = "fill" /\ o.phase = "flushed"
       \/ /\ o.kind = "repair"
          /\ o.phase \in {"asked", "waiting", "start", "found", "read", "flushed",
                          "committed", "stored"}

HaveIds(rows) == \A r \in rows : r.id \in Nat \ {0} /\ r.id < next_id

\* A repair that has found its reset is the first; what it adds is anchored to it.
ItsRepair(o) ==
    /\ o.kind = "repair" /\ S!InTransaction(o) =>
           /\ o.found \in Nat \ {0}
           /\ \A e \in events : e.event = "repaired" => e.ref # o.found
    /\ o.kind = "repair" /\ o.phase = "flushed" =>
           \E r \in o.rows : o.rows = {r} /\ r.event = "repaired" /\ r.ref = o.found
    /\ o.kind # "repair" => \A r \in o.rows : r.event = "repaired" => r.ref = 0

SoundOp(o) == Shapely(o) /\ HaveIds(o.rows) /\ ItsRepair(o)

Shapes ==
    /\ clock \in Int /\ zone \in Int /\ WholeRow(row) /\ next_id \in Nat \ {0}
    /\ committed \in Nat /\ HaveIds(events)
    /\ DOMAIN transaction = Requests

\* No lock is held twice.
SameLock(o, p) ==
    o.kind = p.kind /\ (o.kind = "repair" \/ (o.kind = "submit" /\ o.today = p.today))

Apart ==
    \A p, q \in Requests :
        S!InTransaction(transaction[p]) /\ S!InTransaction(transaction[q])
        /\ SameLock(transaction[p], transaction[q]) => p = q

\* Every key that is told of a success has a repair of its own.
KeysServed == {k \in Keys : cached[k] # None}
ToBeStored == {q \in Requests : transaction[q].phase = "committed"}

EachHasItsRepair ==
    /\ \A e, f \in S!Repairs : e.ref = f.ref => e = f
    /\ IsFiniteSet(KeysServed) /\ IsFiniteSet(ToBeStored) /\ IsFiniteSet(S!Repairs)
    /\ Cardinality(KeysServed) + Cardinality(ToBeStored) <= Cardinality(S!Repairs)

\* A ledger, and the streak it ends with.
FollowsIn(ledger, r, s) == r.id < s.id /\ \A e \in ledger : e.id <= r.id \/ s.id <= e.id

Chain(ledger, value) ==
    /\ \A r, s \in ledger : r.id = s.id => r = s
    /\ \A r, s \in ledger : FollowsIn(ledger, r, s) => r.to_value = s.from_value
    /\ \A r \in S!Newest(ledger) : r.to_value = value

CoveredOnce(ledger) ==
    \A r, s \in ledger :
        r.event = "freeze_used" /\ s.event = "freeze_used" /\ r.local_date = s.local_date => r = s

Accounts(ledger, s, count, today) ==
    /\ Chain(ledger, s.streak) /\ CoveredOnce(ledger)
    /\ s.attempts = count + 2 /\ s.last_active <= today

\* Nobody under another lock has disturbed what the operation read, and what it
\* will commit is accounted for.
SteadyOp(o) ==
    /\ o.phase \in {"read", "flushed"} => o.seen = row
    /\ o.kind = "submit" => row.last_active <= o.today /\ o.today <= clock + zone
    /\ o.kind = "zone" /\ o.phase \in {"read", "flushed"} => o.today <= clock + o.key
    /\ o.kind = "zone" /\ o.phase = "read" => o.after = row /\ o.rows = {}
    /\ o.phase = "flushed" =>
           /\ Accounts(events \cup o.rows, o.after,
                       IF o.kind = "submit" THEN committed + 1 ELSE committed,
                       clock + (IF o.kind = "zone" THEN o.key ELSE zone))
           /\ o.kind = "submit" => o.after.last_active = o.today

OneFamily ==
    \A p, q \in Requests :
        S!Exposed(transaction[p]) /\ S!Exposed(transaction[q]) =>
            S!Family(transaction[p], p) = S!Family(transaction[q], q)

Undisturbed ==
    ~crossed =>
        /\ OneFamily
        /\ \A q \in Requests : S!Active(q) => SteadyOp(transaction[q])
        /\ Accounts(events, row, committed, clock + zone)

LedgerInv ==
    /\ Shapes /\ Apart /\ EachHasItsRepair /\ Undisturbed
    /\ \A q \in Requests : S!Active(q) => SoundOp(transaction[q])

LEMMA StreakCount == \A T : S!Cardinality(T) = Cardinality(T)
BY DEF S!Cardinality, Cardinality

LEMMA LedgerInvProtects == LedgerInv => LocksProtect
<1> SUFFICES ASSUME LedgerInv PROVE LocksProtect
  OBVIOUS
<1>1. S!RepairedOnce
  <2>1. /\ Cardinality(KeysServed) \in Nat /\ Cardinality(ToBeStored) \in Nat
        /\ Cardinality(S!Repairs) \in Nat
    BY FS_CardinalityType DEF LedgerInv, EachHasItsRepair
  <2>2. Cardinality(KeysServed) <= Cardinality(S!Repairs)
    BY <2>1 DEF LedgerInv, EachHasItsRepair
  <2>3. S!Cardinality(KeysServed) <= S!Cardinality(S!Repairs)
    BY <2>2, StreakCount
  <2>4. \A e, f \in S!Repairs : e.ref = f.ref => e = f
    BY DEF LedgerInv, EachHasItsRepair
  <2>5. QED
    BY <2>3, <2>4 DEF S!RepairedOnce, KeysServed
<1>2. ASSUME ~crossed PROVE S!Accounted
  <2>1. Accounts(events, row, committed, clock + zone)
    BY <1>2 DEF LedgerInv, Undisturbed
  <2>2. S!LedgerIsAChain
    BY <2>1 DEF Accounts, Chain, FollowsIn, S!LedgerIsAChain, S!Follows
  <2>3. QED
    BY <2>1, <2>2 DEF Accounts, CoveredOnce, S!Accounted, S!Today
<1>3. QED
  BY <1>1, <1>2 DEF LocksProtect, S!LocksProtect, S!SameLockIsSafe

\* Rows with higher ids carry a chain on.
LEMMA ChainGrows ==
    ASSUME NEW ledger, NEW new, NEW n \in Int, NEW v, NEW w,
           \A r \in ledger : r.id \in Int /\ r.id < n,
           \A r \in new : r.id \in Int /\ n <= r.id,
           Chain(ledger, v), Chain(new, w),
           \A s \in new : (\A e \in new : s.id <= e.id) => s.from_value = v,
           new = {} => v = w
    PROVE  Chain(ledger \cup new, w)
<1>1. \A r \in ledger, s \in new : r.id < s.id
  <2>1. \A i, j \in Int : i < n /\ n <= j => i < j
    OBVIOUS
  <2>2. QED
    BY <2>1
<1>2. \A r \in ledger \cup new : r.id \in Int
  OBVIOUS
<1>3. ASSUME NEW r \in ledger \cup new, NEW s \in ledger \cup new, r.id = s.id
      PROVE  r = s
  BY <1>1, <1>2, <1>3 DEF Chain
<1>4. ASSUME NEW r \in ledger \cup new, NEW s \in ledger \cup new,
             FollowsIn(ledger \cup new, r, s)
      PROVE  r.to_value = s.from_value
  <2>1. CASE r \in ledger /\ s \in ledger
    BY <1>4, <2>1 DEF Chain, FollowsIn
  <2>2. CASE r \in new /\ s \in new
    BY <1>4, <2>2 DEF Chain, FollowsIn
  <2>3. CASE r \in ledger /\ s \in new
    <3>1. r \in S!Newest(ledger)
      <4>1. ASSUME NEW e \in ledger PROVE e.id <= r.id
        <5>1. e.id <= r.id \/ s.id <= e.id
          BY <1>4 DEF FollowsIn
        <5>2. e.id < s.id /\ e.id \in Int /\ s.id \in Int
          BY <1>1, <1>2, <2>3
        <5>3. QED
          BY <5>1, <5>2
      <4>2. QED
        BY <2>3, <4>1 DEF S!Newest
    <3>2. \A e \in new : s.id <= e.id
      <4>1. ASSUME NEW e \in new PROVE s.id <= e.id
        <5>1. e.id <= r.id \/ s.id <= e.id
          BY <1>4 DEF FollowsIn
        <5>2. r.id < e.id /\ e.id \in Int /\ r.id \in Int
          BY <1>1, <1>2, <2>3
        <5>3. QED
          BY <5>1, <5>2
      <4>2. QED
        BY <4>1
    <3>3. QED
      BY <2>3, <3>1, <3>2 DEF Chain
  <2>4. CASE r \in new /\ s \in ledger
    <3>1. s.id < r.id /\ r.id < s.id /\ r.id \in Int /\ s.id \in Int
      BY <1>1, <1>2, <1>4, <2>4 DEF FollowsIn
    <3>2. QED
      BY <3>1
  <2>5. QED
    BY <2>1, <2>2, <2>3, <2>4
<1>5. ASSUME NEW r \in S!Newest(ledger \cup new) PROVE r.to_value = w
  <2>1. r \in ledger \cup new /\ \A e \in ledger \cup new : e.id <= r.id
    BY <1>5 DEF S!Newest
  <2>2. CASE r \in new
    <3>1. r \in S!Newest(new)
      BY <2>1, <2>2 DEF S!Newest
    <3>2. QED
      BY <3>1 DEF Chain
  <2>3. CASE r \in ledger
    <3>1. new = {}
      <4>1. SUFFICES ASSUME NEW s \in new PROVE FALSE
        OBVIOUS
      <4>2. r.id < s.id /\ s.id <= r.id /\ r.id \in Int /\ s.id \in Int
        BY <1>1, <1>2, <2>1, <2>3
      <4>3. QED
        BY <4>2
    <3>2. r \in S!Newest(ledger)
      BY <2>1, <2>3 DEF S!Newest
    <3>3. QED
      BY <3>1, <3>2 DEF Chain
  <2>4. QED
    BY <2>1, <2>2, <2>3
<1>6. QED
  BY <1>3, <1>4, <1>5 DEF Chain

LEMMA IdleIsOut ==
    /\ ~S!InTransaction(S!Idle) /\ ~S!Exposed(S!Idle) /\ S!Idle.phase = "idle"
    /\ S!Idle.kind = "none"
BY DEF S!InTransaction, S!Exposed, S!Idle

\* No repair is added and nobody is told of one.
LEMMA NothingStored ==
    ASSUME EachHasItsRepair, UNCHANGED <<events, cached>>, ToBeStored' \subseteq ToBeStored
    PROVE  EachHasItsRepair'
<1>1. IsFiniteSet(ToBeStored') /\ Cardinality(ToBeStored') <= Cardinality(ToBeStored)
  BY FS_Subset DEF EachHasItsRepair
<1>2. S!Repairs' = S!Repairs /\ KeysServed' = KeysServed
  BY DEF S!Repairs, KeysServed
<1>3. Cardinality(ToBeStored') \in Nat /\ Cardinality(ToBeStored) \in Nat
      /\ Cardinality(KeysServed) \in Nat /\ Cardinality(S!Repairs) \in Nat
  BY <1>1, FS_CardinalityType DEF EachHasItsRepair
<1>4. QED
  BY <1>1, <1>2, <1>3 DEF EachHasItsRepair

\* One operation goes on, and the database stays: what it may not disturb.
LEMMA OneMoves ==
    ASSUME LedgerInv, NEW q \in Requests, NEW o,
           DOMAIN transaction' = Requests, transaction'[q] = o,
           \A p \in Requests \ {q} : transaction'[p] = transaction[p],
           UNCHANGED <<clock, zone, row, events, committed>>,
           next_id' \in Nat, next_id <= next_id',
           o = S!Idle \/ SoundOp(o)',
           S!InTransaction(o) =>
               \A p \in Requests \ {q} :
                   S!InTransaction(transaction[p]) => ~SameLock(transaction[p], o),
           EachHasItsRepair',
           ~crossed' =>
               /\ ~crossed
               /\ o = S!Idle \/ SteadyOp(o)
               /\ S!Exposed(o) =>
                      \A p \in Requests \ {q} :
                          S!Exposed(transaction[p]) =>
                              S!Family(transaction[p], p) = S!Family(o, q)
    PROVE  LedgerInv'
<1>1. transaction'[q] = o /\ \A p \in Requests : p # q => transaction'[p] = transaction[p]
      /\ DOMAIN transaction' = Requests
  OBVIOUS
<1>2. next_id \in Nat \ {0} /\ next_id' \in Nat \ {0}
  BY DEF LedgerInv, Shapes
<1>3. ASSUME NEW rows, HaveIds(rows) PROVE HaveIds(rows)'
  BY <1>2, <1>3 DEF HaveIds
<1>4. Shapes'
  <2>1. HaveIds(events)'
    BY <1>3 DEF LedgerInv, Shapes, HaveIds
  <2>2. QED
    BY <1>1, <1>2, <2>1 DEF LedgerInv, Shapes, WholeRow, S!Columns
<1>5. Apart'
  <2>1. ASSUME NEW p \in Requests, NEW r \in Requests, p # r,
               S!InTransaction(transaction'[p]), S!InTransaction(transaction'[r])
        PROVE  ~SameLock(transaction'[p], transaction'[r])
    <3>1. CASE p # q /\ r # q
      BY <1>1, <2>1, <3>1 DEF LedgerInv, Apart
    <3>2. CASE p = q
      <4>1. ~SameLock(transaction[r], o) /\ transaction'[r] = transaction[r]
        BY <1>1, <2>1, <3>2
      <4>2. QED
        BY <1>1, <3>2, <4>1 DEF SameLock
    <3>3. CASE r = q
      BY <1>1, <2>1, <3>3
    <3>4. QED
      BY <3>1, <3>2, <3>3
  <2>2. QED
    BY <2>1 DEF Apart, S!InTransaction
<1>6. ASSUME NEW p \in Requests, S!Active(p)' PROVE SoundOp(transaction[p])'
  <2>1. CASE p = q
    BY <1>1, <1>6, <2>1 DEF S!Active
  <2>2. CASE p # q
    <3>1. SoundOp(transaction[p]) /\ transaction'[p] = transaction[p]
      BY <1>1, <1>6, <2>2 DEF LedgerInv, S!Active
    <3>2. HaveIds(transaction[p].rows)'
      BY <1>3, <3>1 DEF SoundOp, HaveIds
    <3>3. QED
      BY <3>1, <3>2 DEF SoundOp, Shapely, ItsRepair, WholeRow, S!Columns
  <2>3. QED
    BY <2>1, <2>2
<1>7. Undisturbed'
  <2>1. SUFFICES ASSUME ~crossed'
                 PROVE  /\ OneFamily'
                        /\ \A p \in Requests : S!Active(p)' => SteadyOp(transaction[p])'
                        /\ Accounts(events, row, committed, clock + zone)'
    BY DEF Undisturbed
  <2>2. ~crossed /\ (o = S!Idle \/ SteadyOp(o))
    BY <2>1
  <2>3. OneFamily'
    <3>1. ASSUME NEW p \in Requests, NEW r \in Requests, S!Exposed(transaction'[p]),
                 S!Exposed(transaction'[r])
          PROVE  S!Family(transaction'[p], p) = S!Family(transaction'[r], r)
      BY <1>1, <2>1, <2>2, <3>1 DEF LedgerInv, Undisturbed, OneFamily
    <3>2. QED
      BY <3>1 DEF OneFamily, S!Exposed, S!InTransaction, S!Family
  <2>4. ASSUME NEW s PROVE SteadyOp(s)' <=> SteadyOp(s)
    BY DEF SteadyOp, Accounts, Chain, FollowsIn, CoveredOnce, S!Newest
  <2>5. ASSUME NEW p \in Requests, S!Active(p)' PROVE SteadyOp(transaction[p])'
    <3>1. CASE p = q
      <4>1. SteadyOp(o)
        BY <1>1, <2>2, <2>5, <3>1 DEF S!Active
      <4>2. QED
        BY <1>1, <2>4, <3>1, <4>1
           DEF SteadyOp, Accounts, Chain, FollowsIn, CoveredOnce, S!Newest
    <3>2. CASE p # q
      <4>1. SteadyOp(transaction[p]) /\ transaction'[p] = transaction[p]
        BY <1>1, <2>2, <2>5, <3>2 DEF LedgerInv, Undisturbed, S!Active
      <4>2. QED
        BY <4>1 DEF SteadyOp, Accounts, Chain, FollowsIn, CoveredOnce, S!Newest
    <3>3. QED
      BY <3>1, <3>2
  <2>6. Accounts(events, row, committed, clock + zone)'
    BY <2>2 DEF LedgerInv, Undisturbed, Accounts, Chain, FollowsIn, CoveredOnce, S!Newest
  <2>7. QED
    BY <2>3, <2>5, <2>6
<1>8. QED
  BY <1>4, <1>5, <1>6, <1>7 DEF LedgerInv

\* So it is for all but the last step of a repair, where the key is told.
LEMMA OneGoesOn ==
    ASSUME LedgerInv, NEW q \in Requests, NEW o,
           DOMAIN transaction' = Requests, transaction'[q] = o,
           \A p \in Requests \ {q} : transaction'[p] = transaction[p],
           UNCHANGED <<clock, zone, row, events, committed, cached>>,
           next_id' \in Nat, next_id <= next_id',
           o = S!Idle \/ SoundOp(o)',
           S!InTransaction(o) =>
               \A p \in Requests \ {q} :
                   S!InTransaction(transaction[p]) => ~SameLock(transaction[p], o),
           o.phase = "committed" => transaction[q].phase = "committed",
           ~crossed' =>
               /\ ~crossed
               /\ o = S!Idle \/ SteadyOp(o)
               /\ S!Exposed(o) =>
                      \A p \in Requests \ {q} :
                          S!Exposed(transaction[p]) =>
                              S!Family(transaction[p], p) = S!Family(o, q)
    PROVE  LedgerInv'
<1>1. transaction'[q] = o /\ \A p \in Requests : p # q => transaction'[p] = transaction[p]
  OBVIOUS
<1>2. EachHasItsRepair'
  <2>1. ToBeStored' \subseteq ToBeStored
    BY <1>1 DEF ToBeStored
  <2>2. QED
    BY <2>1, NothingStored DEF LedgerInv
<1>3. QED
  BY <1>2, OneMoves

LEMMA Begun ==
    ASSUME LedgerInv, NEW q \in Requests, NEW o,
           transaction' = [transaction EXCEPT ![q] = o]
    PROVE  /\ DOMAIN transaction' = Requests /\ transaction'[q] = o
           /\ \A p \in Requests \ {q} : transaction'[p] = transaction[p]
BY DEF LedgerInv, Shapes

\* What an operation in progress is like.
LEMMA InProgress ==
    ASSUME LedgerInv, NEW q \in Requests, transaction[q].kind # "none" \/ transaction[q].phase # "idle"
    PROVE  /\ S!Active(q) /\ SoundOp(transaction[q]) /\ DOMAIN transaction[q] = OpFields
           /\ ~crossed => SteadyOp(transaction[q])
BY DEF LedgerInv, S!Active, S!Idle, SoundOp, Shapely, Undisturbed

LEMMA NewOp ==
    ASSUME LedgerInv, NEW kind, NEW at, NEW key, NEW today, NEW o,
           o = S!Op(kind, at, key, today)
    PROVE  /\ DOMAIN o = OpFields /\ WholeRow(o.seen) /\ WholeRow(o.after) /\ o.rows = {}
           /\ o.kind = kind /\ o.phase = at /\ o.key = key /\ o.today = today
           /\ o.seen = row /\ o.after = row
BY DEF LedgerInv, Shapes, S!Op, OpFields

LEMMA StartSubmitKeeps ==
    ASSUME LedgerInv, NEW q \in Requests, S!StartSubmit(q)
    PROVE  LedgerInv'
<1>1. PICK o : o = S!Op("submit", "start", None, S!Today)
  OBVIOUS
<1>2. /\ transaction' = [transaction EXCEPT ![q] = o]
      /\ crossed' = (crossed \/ S!Crosses(q, o))
      /\ UNCHANGED <<clock, zone, row, events, committed, cached, next_id>>
  BY <1>1 DEF S!StartSubmit, S!Expose, S!database, S!redis
<1>3. /\ DOMAIN o = OpFields /\ WholeRow(o.seen) /\ WholeRow(o.after) /\ o.rows = {}
      /\ o.kind = "submit" /\ o.phase = "start" /\ o.today = clock + zone
  BY <1>1, NewOp DEF S!Today
<1>4. clock \in Int /\ zone \in Int /\ next_id \in Nat
  BY DEF LedgerInv, Shapes
<1>5. SoundOp(o)'
  BY <1>2, <1>3, <1>4 DEF SoundOp, Shapely, HaveIds, ItsRepair, S!InTransaction, WholeRow, S!Columns
<1>6. ~crossed => SteadyOp(o)
  BY <1>3, <1>4 DEF LedgerInv, Undisturbed, Accounts, SteadyOp
<1>7. ~S!InTransaction(o) /\ o.phase # "committed"
  BY <1>3 DEF S!InTransaction
<1>8. ~crossed' => ~crossed /\ \A p \in Requests \ {q} :
                       S!Exposed(transaction[p]) => S!Family(transaction[p], p) = S!Family(o, q)
  BY <1>2 DEF S!Crosses
<1>9. /\ DOMAIN transaction' = Requests /\ transaction'[q] = o
      /\ \A p \in Requests \ {q} : transaction'[p] = transaction[p]
  BY <1>2, Begun
<1>10. ~crossed' =>
           /\ ~crossed /\ (o = S!Idle \/ SteadyOp(o))
           /\ S!Exposed(o) =>
                  \A p \in Requests \ {q} :
                      S!Exposed(transaction[p]) => S!Family(transaction[p], p) = S!Family(o, q)
  BY <1>6, <1>8
<1>11. next_id' \in Nat /\ next_id <= next_id'
  BY <1>2, <1>4
<1>12. QED
  BY <1>2, <1>5, <1>7, <1>9, <1>10, <1>11, OneGoesOn

LEMMA ReadForSubmitKeeps ==
    ASSUME LedgerInv, NEW q \in Requests, S!ReadForSubmit(q)
    PROVE  LedgerInv'
<1>1. /\ transaction[q].kind = "submit" /\ transaction[q].phase = "start" /\ S!LockIsFree(q)
      /\ transaction' = [transaction EXCEPT ![q].phase = "read", ![q].seen = row]
      /\ UNCHANGED <<clock, zone, row, events, committed, cached, next_id, crossed>>
  BY DEF S!ReadForSubmit, S!database, S!redis
<1>2. /\ SoundOp(transaction[q]) /\ DOMAIN transaction[q] = OpFields
      /\ ~crossed => SteadyOp(transaction[q])
  BY <1>1, InProgress
<1>3. PICK o : o = transaction'[q]
  OBVIOUS
<1>4. /\ DOMAIN transaction' = Requests
      /\ \A p \in Requests \ {q} : transaction'[p] = transaction[p]
      /\ o = [transaction[q] EXCEPT !.phase = "read", !.seen = row]
  BY <1>1, <1>3 DEF LedgerInv, Shapes
<1>5. /\ DOMAIN o = OpFields /\ o.phase = "read" /\ o.seen = row /\ o.kind = "submit"
      /\ o.today = transaction[q].today /\ o.rows = transaction[q].rows
      /\ o.after = transaction[q].after
  BY <1>1, <1>2, <1>4 DEF OpFields
<1>6. SoundOp(o)'
  BY <1>1, <1>2, <1>5
     DEF SoundOp, Shapely, HaveIds, ItsRepair, S!InTransaction, WholeRow, S!Columns, LedgerInv, Shapes
<1>7. ~crossed => SteadyOp(o)
  BY <1>1, <1>2, <1>5 DEF SteadyOp
<1>8. ASSUME NEW p \in Requests \ {q}, S!InTransaction(transaction[p])
      PROVE  ~SameLock(transaction[p], o)
  BY <1>1, <1>5, <1>8 DEF S!LockIsFree, S!LockOf, SameLock
<1>9. ~crossed => \A p \in Requests \ {q} :
                      S!Exposed(transaction[p]) => S!Family(transaction[p], p) = S!Family(o, q)
  BY <1>1, <1>5 DEF LedgerInv, Undisturbed, OneFamily, S!Exposed, S!Family
<1>10. next_id \in Nat
  BY DEF LedgerInv, Shapes
<1>11. ~crossed' =>
           /\ ~crossed /\ (o = S!Idle \/ SteadyOp(o))
           /\ S!Exposed(o) =>
                  \A p \in Requests \ {q} :
                      S!Exposed(transaction[p]) => S!Family(transaction[p], p) = S!Family(o, q)
  BY <1>1, <1>7, <1>9
<1>12. next_id' \in Nat /\ next_id <= next_id' /\ o.phase # "committed"
  BY <1>1, <1>5, <1>10
<1>13. QED
  BY <1>1, <1>3, <1>4, <1>6, <1>8, <1>11, <1>12, OneGoesOn

\* An operation that ends, or is over before it could disturb or be disturbed.
LEMMA OneEnds ==
    ASSUME LedgerInv, NEW q \in Requests, transaction' = [transaction EXCEPT ![q] = S!Idle],
           UNCHANGED <<clock, zone, row, events, committed, cached, next_id, crossed>>
    PROVE  LedgerInv'
<1>1. PICK o : o = S!Idle
  OBVIOUS
<1>2. next_id \in Nat /\ ~S!InTransaction(o) /\ ~S!Exposed(o) /\ o.phase # "committed"
  BY <1>1, IdleIsOut DEF LedgerInv, Shapes
<1>3. transaction' = [transaction EXCEPT ![q] = o]
  BY <1>1
<1>4. /\ DOMAIN transaction' = Requests /\ transaction'[q] = o
      /\ \A p \in Requests \ {q} : transaction'[p] = transaction[p]
  BY <1>3, Begun
<1>5. next_id' \in Nat /\ next_id <= next_id' /\ (crossed' <=> crossed)
  BY <1>2
<1>6. QED
  BY <1>1, <1>2, <1>4, <1>5, OneGoesOn

\* A repair that has no part in a transaction yet, or any more.
LEMMA OneWaits ==
    ASSUME LedgerInv, NEW q \in Requests, NEW o,
           DOMAIN transaction' = Requests, transaction'[q] = o,
           \A p \in Requests \ {q} : transaction'[p] = transaction[p],
           UNCHANGED <<clock, zone, row, events, committed, cached, next_id, crossed>>,
           DOMAIN o = OpFields, WholeRow(o.seen), WholeRow(o.after), HaveIds(o.rows),
           o.kind = "repair", o.phase \in {"asked", "waiting", "start", "stored"}
    PROVE  LedgerInv'
<1>1. next_id \in Nat /\ ~S!InTransaction(o) /\ ~S!Exposed(o) /\ o.phase # "committed"
  BY DEF LedgerInv, Shapes, S!InTransaction, S!Exposed
<1>2. SoundOp(o)'
  BY <1>1 DEF SoundOp, Shapely, HaveIds, ItsRepair, WholeRow, S!Columns, S!InTransaction
<1>3. SteadyOp(o)
  BY DEF SteadyOp
<1>4. QED
  BY <1>1, <1>2, <1>3, OneGoesOn

LEMMA AskKeepsLedger ==
    ASSUME LedgerInv, NEW q \in Requests, NEW k, S!Ask(q, k)
    PROVE  LedgerInv'
<1>1. PICK o : o = S!Op("repair", "asked", k, S!Today)
  OBVIOUS
<1>2. /\ transaction' = [transaction EXCEPT ![q] = o]
      /\ UNCHANGED <<clock, zone, row, events, committed, cached, next_id, crossed>>
  BY <1>1 DEF S!Ask, S!database, S!redis
<1>3. /\ DOMAIN o = OpFields /\ WholeRow(o.seen) /\ WholeRow(o.after) /\ o.rows = {}
      /\ o.kind = "repair" /\ o.phase = "asked"
  BY <1>1, NewOp
<1>4. HaveIds(o.rows)
  BY <1>3 DEF HaveIds
<1>5. QED
  BY <1>2, <1>3, <1>4, Begun, OneWaits

LEMMA WaitingKeeps ==
    ASSUME LedgerInv, NEW q \in Requests, S!Reserve(q) \/ S!WaitTimesOut(q)
    PROVE  LedgerInv'
<1>1. PICK at : /\ at \in {"waiting", "start"}
                /\ transaction' = [transaction EXCEPT ![q].phase = at]
  BY DEF S!Reserve, S!WaitTimesOut
<1>2. /\ transaction[q].kind = "repair"
      /\ UNCHANGED <<clock, zone, row, events, committed, cached, next_id, crossed>>
  BY DEF S!Reserve, S!WaitTimesOut, S!database, S!redis
<1>3. SoundOp(transaction[q]) /\ DOMAIN transaction[q] = OpFields
  BY <1>2, InProgress
<1>4. PICK o : o = transaction'[q]
  OBVIOUS
<1>5. /\ DOMAIN transaction' = Requests
      /\ \A p \in Requests \ {q} : transaction'[p] = transaction[p]
      /\ o = [transaction[q] EXCEPT !.phase = at]
  BY <1>1, <1>4 DEF LedgerInv, Shapes
<1>6. /\ DOMAIN o = OpFields /\ o.phase = at /\ o.kind = "repair"
      /\ o.seen = transaction[q].seen /\ o.rows = transaction[q].rows
      /\ o.after = transaction[q].after
  BY <1>2, <1>3, <1>5 DEF OpFields
<1>7. WholeRow(o.seen) /\ WholeRow(o.after) /\ HaveIds(o.rows)
  BY <1>3, <1>6 DEF SoundOp, Shapely
<1>8. QED
  BY <1>1, <1>2, <1>4, <1>5, <1>6, <1>7, OneWaits

LEMMA EndingKeeps ==
    ASSUME LedgerInv, NEW q \in Requests,
           \/ S!SubmitFails(q) \/ S!WaitEnds(q) \/ S!FindNothing(q) \/ S!NothingToGain(q)
           \/ S!Release(q) \/ S!Die(q)
    PROVE  LedgerInv'
<1>1. /\ transaction' = [transaction EXCEPT ![q] = S!Idle]
      /\ UNCHANGED <<clock, zone, row, events, committed, cached, next_id, crossed>>
  BY DEF S!SubmitFails, S!WaitEnds, S!FindNothing, S!NothingToGain, S!Refuse, S!Release, S!Die,
         S!database, S!redis
<1>2. QED
  BY <1>1, OneEnds

LEMMA StartZoneKeeps ==
    ASSUME LedgerInv, NEW q \in Requests, NEW z \in Zones, S!StartZone(q, z)
    PROVE  LedgerInv'
<1>1. PICK o : o = S!Op("zone", "start", z, S!Today)
  OBVIOUS
<1>2. /\ transaction' = [transaction EXCEPT ![q] = o]
      /\ UNCHANGED <<clock, zone, row, events, committed, cached, next_id, crossed>>
  BY <1>1 DEF S!StartZone, S!database, S!redis
<1>3. /\ DOMAIN o = OpFields /\ WholeRow(o.seen) /\ WholeRow(o.after) /\ o.rows = {}
      /\ o.kind = "zone" /\ o.phase = "start" /\ o.today = clock + zone /\ o.key = z
  BY <1>1, NewOp DEF S!Today
<1>4. clock \in Int /\ zone \in Int /\ next_id \in Nat /\ z \in Int
  BY StreakAssumption DEF LedgerInv, Shapes
<1>5. SoundOp(o)'
  BY <1>2, <1>3, <1>4 DEF SoundOp, Shapely, HaveIds, ItsRepair, S!InTransaction, WholeRow, S!Columns
<1>6. SteadyOp(o)
  BY <1>3 DEF SteadyOp
<1>7. ~S!InTransaction(o) /\ ~S!Exposed(o) /\ o.phase # "committed"
  BY <1>3 DEF S!InTransaction, S!Exposed
<1>8. /\ DOMAIN transaction' = Requests /\ transaction'[q] = o
      /\ \A p \in Requests \ {q} : transaction'[p] = transaction[p]
  BY <1>2, Begun
<1>9. next_id' \in Nat /\ next_id <= next_id' /\ (crossed' <=> crossed)
  BY <1>2, <1>4
<1>10. QED
  BY <1>2, <1>5, <1>6, <1>7, <1>8, <1>9, OneGoesOn

LEMMA ReadForZoneKeeps ==
    ASSUME LedgerInv, NEW q \in Requests, S!ReadForZone(q)
    PROVE  LedgerInv'
<1>1. transaction[q].kind = "zone" /\ transaction[q].phase = "start"
  BY DEF S!ReadForZone
<1>2. PICK key \in Int : key = transaction[q].key
  BY <1>1, InProgress DEF SoundOp, Shapely
<1>3. PICK new : new = S!Op("zone", "read", key, clock + key)
  OBVIOUS
<1>4. PICK o : o = [new EXCEPT !.seen = row, !.at = transaction[q].at]
  OBVIOUS
<1>5. /\ transaction' = [transaction EXCEPT ![q] = o]
      /\ crossed' = (crossed \/ S!Crosses(q, o))
      /\ UNCHANGED <<clock, zone, row, events, committed, cached, next_id>>
  BY <1>2, <1>3, <1>4 DEF S!ReadForZone, S!Expose, S!database, S!redis
<1>6. /\ DOMAIN new = OpFields /\ WholeRow(new.seen) /\ WholeRow(new.after) /\ new.rows = {}
      /\ new.kind = "zone" /\ new.phase = "read" /\ new.today = clock + key /\ new.key = key
      /\ new.seen = row /\ new.after = row
  BY <1>3, NewOp
<1>7. /\ DOMAIN o = OpFields /\ WholeRow(o.seen) /\ WholeRow(o.after) /\ o.rows = {}
      /\ o.kind = "zone" /\ o.phase = "read" /\ o.today = clock + key /\ o.key = key
      /\ o.seen = row /\ o.after = row
  BY <1>4, <1>6 DEF OpFields
<1>8. clock \in Int /\ next_id \in Nat /\ clock + key \in Int
  BY <1>2 DEF LedgerInv, Shapes
<1>9. SoundOp(o)'
  BY <1>2, <1>5, <1>6, <1>7, <1>8
     DEF SoundOp, Shapely, HaveIds, ItsRepair, S!InTransaction, WholeRow, S!Columns
<1>10. SteadyOp(o)
  BY <1>6, <1>7, <1>8 DEF SteadyOp
<1>11. /\ DOMAIN transaction' = Requests /\ transaction'[q] = o
       /\ \A p \in Requests \ {q} : transaction'[p] = transaction[p]
  BY <1>5, Begun
<1>12. next_id' \in Nat /\ next_id <= next_id' /\ o.phase # "committed"
  BY <1>5, <1>6, <1>7, <1>8
<1>13. \A p \in Requests \ {q} : ~SameLock(transaction[p], o)
  BY <1>6, <1>7 DEF SameLock
<1>14. ~crossed' =>
           /\ ~crossed /\ (o = S!Idle \/ SteadyOp(o))
           /\ S!Exposed(o) =>
                  \A p \in Requests \ {q} :
                      S!Exposed(transaction[p]) => S!Family(transaction[p], p) = S!Family(o, q)
  BY <1>5, <1>10 DEF S!Crosses
<1>15. QED
  BY <1>5, <1>9, <1>11, <1>12, <1>13, <1>14, OneGoesOn

LEMMA FindKeeps ==
    ASSUME LedgerInv, NEW q \in Requests, S!Find(q)
    PROVE  LedgerInv'
<1>1. /\ transaction[q].kind = "repair" /\ transaction[q].phase = "start" /\ S!LockIsFree(q)
      /\ UNCHANGED <<clock, zone, row, events, committed, cached, next_id>>
  BY DEF S!Find, S!database, S!redis
<1>2. PICK r \in S!Restorable :
          S!Expose(q, [transaction[q] EXCEPT !.phase = "found", !.found = r.id,
                                             !.today = S!RestoresTo(r)])
  BY DEF S!Find
<1>3. PICK o : o = [transaction[q] EXCEPT !.phase = "found", !.found = r.id,
                                          !.today = S!RestoresTo(r)]
  OBVIOUS
<1>4. /\ transaction' = [transaction EXCEPT ![q] = o]
      /\ crossed' = (crossed \/ S!Crosses(q, o))
  BY <1>2, <1>3 DEF S!Expose
<1>5. SoundOp(transaction[q]) /\ DOMAIN transaction[q] = OpFields
  BY <1>1, InProgress
<1>6. /\ DOMAIN o = OpFields /\ o.phase = "found" /\ o.kind = "repair" /\ o.found = r.id
      /\ o.rows = transaction[q].rows /\ o.seen = transaction[q].seen
      /\ o.after = transaction[q].after
  BY <1>1, <1>3, <1>5 DEF OpFields
<1>7. r.id \in Nat \ {0} /\ \A e \in events : e.event = "repaired" => e.ref # r.id
  BY <1>2 DEF S!Restorable, S!LastReset, LedgerInv, Shapes, HaveIds
<1>8. SoundOp(o)'
  BY <1>1, <1>5, <1>6, <1>7
     DEF SoundOp, Shapely, HaveIds, ItsRepair, S!InTransaction, WholeRow, S!Columns
<1>9. SteadyOp(o)
  BY <1>6 DEF SteadyOp
<1>10. /\ DOMAIN transaction' = Requests /\ transaction'[q] = o
       /\ \A p \in Requests \ {q} : transaction'[p] = transaction[p]
  BY <1>4, Begun
<1>11. next_id' \in Nat /\ next_id <= next_id' /\ o.phase # "committed"
  BY <1>1, <1>6 DEF LedgerInv, Shapes
<1>12. ASSUME NEW p \in Requests \ {q}, S!InTransaction(transaction[p])
       PROVE  ~SameLock(transaction[p], o)
  BY <1>1, <1>6, <1>12 DEF S!LockIsFree, S!LockOf, SameLock
<1>13. ~crossed' =>
           /\ ~crossed /\ (o = S!Idle \/ SteadyOp(o))
           /\ S!Exposed(o) =>
                  \A p \in Requests \ {q} :
                      S!Exposed(transaction[p]) => S!Family(transaction[p], p) = S!Family(o, q)
  BY <1>4, <1>9 DEF S!Crosses
<1>14. QED
  BY <1>1, <1>8, <1>10, <1>11, <1>12, <1>13, OneGoesOn

\* Who is in a transaction stays in it: the locks and the families are the same.
LEMMA StaysIn ==
    ASSUME LedgerInv, NEW q \in Requests, NEW o, S!InTransaction(transaction[q]),
           o.kind = transaction[q].kind, o.kind = "submit" => o.today = transaction[q].today
    PROVE  /\ \A p \in Requests \ {q} :
                  S!InTransaction(transaction[p]) => ~SameLock(transaction[p], o)
           /\ ~crossed => \A p \in Requests \ {q} :
                  S!Exposed(transaction[p]) => S!Family(transaction[p], p) = S!Family(o, q)
<1>1. ASSUME NEW p \in Requests \ {q}, S!InTransaction(transaction[p])
      PROVE  ~SameLock(transaction[p], o)
  BY <1>1 DEF LedgerInv, Apart, SameLock
<1>2. ~crossed => \A p \in Requests \ {q} :
                  S!Exposed(transaction[p]) => S!Family(transaction[p], p) = S!Family(o, q)
  BY DEF LedgerInv, Undisturbed, OneFamily, S!Exposed, S!Family
<1>3. QED
  BY <1>1, <1>2

LEMMA ReadForRepairKeeps ==
    ASSUME LedgerInv, NEW q \in Requests, S!ReadForRepair(q)
    PROVE  LedgerInv'
<1>1. /\ transaction[q].kind = "repair" /\ transaction[q].phase = "found"
      /\ transaction' = [transaction EXCEPT ![q].phase = "read", ![q].seen = row]
      /\ UNCHANGED <<clock, zone, row, events, committed, cached, next_id, crossed>>
  BY DEF S!ReadForRepair, S!database, S!redis
<1>2. SoundOp(transaction[q]) /\ DOMAIN transaction[q] = OpFields
  BY <1>1, InProgress
<1>3. PICK o : o = transaction'[q]
  OBVIOUS
<1>4. /\ DOMAIN transaction' = Requests
      /\ \A p \in Requests \ {q} : transaction'[p] = transaction[p]
      /\ o = [transaction[q] EXCEPT !.phase = "read", !.seen = row]
  BY <1>1, <1>3 DEF LedgerInv, Shapes
<1>5. /\ DOMAIN o = OpFields /\ o.phase = "read" /\ o.seen = row /\ o.kind = "repair"
      /\ o.rows = transaction[q].rows /\ o.found = transaction[q].found
      /\ o.after = transaction[q].after
  BY <1>1, <1>2, <1>4 DEF OpFields
<1>6. SoundOp(o)'
  BY <1>1, <1>2, <1>5
     DEF SoundOp, Shapely, HaveIds, ItsRepair, S!InTransaction, WholeRow, S!Columns, LedgerInv, Shapes
<1>7. SteadyOp(o)
  BY <1>5 DEF SteadyOp
<1>8. S!InTransaction(transaction[q])
  BY <1>1 DEF S!InTransaction
<1>9. next_id' \in Nat /\ next_id <= next_id' /\ o.phase # "committed" /\ (crossed' <=> crossed)
  BY <1>1, <1>5 DEF LedgerInv, Shapes
<1>10. /\ \A p \in Requests \ {q} :
              S!InTransaction(transaction[p]) => ~SameLock(transaction[p], o)
       /\ ~crossed => \A p \in Requests \ {q} :
              S!Exposed(transaction[p]) => S!Family(transaction[p], p) = S!Family(o, q)
  BY <1>1, <1>5, <1>8, StaysIn
<1>11. QED
  BY <1>1, <1>3, <1>4, <1>6, <1>7, <1>9, <1>10, OneGoesOn

\* Rows without their ids, in an order that the sequence can follow.
RowFields == {"id", "event", "from_value", "to_value", "local_date", "ref", "created_at"}

InOrder(rows) ==
    /\ IsFiniteSet(rows) /\ \A r \in rows : DOMAIN r = RowFields
    /\ \A r \in rows : ~S!Precedes(r, r)
    /\ \A r, s \in rows : r # s => S!Precedes(r, s) \/ S!Precedes(s, r)
    /\ \A r, e, s \in rows : S!Precedes(r, e) /\ S!Precedes(e, s) => S!Precedes(r, s)

\* In that order they lead from one streak to another.
Leads(rows, v, w) ==
    /\ \A r, s \in rows :
           S!Precedes(r, s) /\ (\A e \in rows : ~(S!Precedes(r, e) /\ S!Precedes(e, s))) =>
               r.to_value = s.from_value
    /\ \A s \in rows : (\A e \in rows : ~S!Precedes(e, s)) => s.from_value = v
    /\ \A r \in rows : (\A e \in rows : ~S!Precedes(r, e)) => r.to_value = w
    /\ rows = {} => v = w

Place(rows, r) == next_id + S!Cardinality({e \in rows : S!Precedes(e, r)})

LEMMA Placed ==
    ASSUME NEW rows, InOrder(rows), next_id \in Nat \ {0}
    PROVE  /\ S!Numbered(rows) = {[r EXCEPT !.id = Place(rows, r)] : r \in rows}
           /\ \A r \in rows : /\ Place(rows, r) \in Nat \ {0} /\ next_id <= Place(rows, r)
                              /\ Place(rows, r) < next_id + S!Cardinality(rows)
           /\ S!Cardinality(rows) \in Nat
           /\ \A r, s \in rows : S!Precedes(r, s) => Place(rows, r) < Place(rows, s)
<1> DEFINE before(r) == {e \in rows : S!Precedes(e, r)}
<1>1. \A r \in rows : IsFiniteSet(before(r)) /\ Cardinality(before(r)) \in Nat
                      /\ Place(rows, r) = next_id + Cardinality(before(r))
  BY FS_Subset, FS_CardinalityType, StreakCount DEF InOrder, Place
<1>2. S!Cardinality(rows) = Cardinality(rows) /\ Cardinality(rows) \in Nat /\ IsFiniteSet(rows)
  BY FS_CardinalityType, StreakCount DEF InOrder
<1>3. ASSUME NEW r \in rows PROVE Cardinality(before(r)) + 1 <= Cardinality(rows)
  <2>1. r \notin before(r) /\ before(r) \cup {r} \subseteq rows
    BY DEF InOrder
  <2>2. Cardinality(before(r) \cup {r}) = Cardinality(before(r)) + 1
    BY <1>1, <2>1, FS_AddElement
  <2>3. Cardinality(before(r) \cup {r}) <= Cardinality(rows)
    BY <1>2, <2>1, FS_Subset
  <2>4. QED
    BY <2>2, <2>3
<1>4. ASSUME NEW r \in rows, NEW s \in rows, S!Precedes(r, s)
      PROVE  Cardinality(before(r)) + 1 <= Cardinality(before(s))
  <2>1. r \notin before(r) /\ before(r) \cup {r} \subseteq before(s)
    BY <1>4 DEF InOrder
  <2>2. Cardinality(before(r) \cup {r}) = Cardinality(before(r)) + 1
    BY <1>1, <2>1, FS_AddElement
  <2>3. Cardinality(before(r) \cup {r}) <= Cardinality(before(s))
    BY <1>1, <2>1, FS_Subset
  <2>4. QED
    BY <2>2, <2>3
<1>5. S!Numbered(rows) = {[r EXCEPT !.id = Place(rows, r)] : r \in rows}
  BY DEF S!Numbered, Place
<1> HIDE DEF before
<1>6. ASSUME NEW r \in rows
      PROVE  /\ Place(rows, r) \in Nat \ {0} /\ next_id <= Place(rows, r)
             /\ Place(rows, r) < next_id + S!Cardinality(rows)
  BY <1>1, <1>2, <1>3
<1>7. ASSUME NEW r \in rows, NEW s \in rows, S!Precedes(r, s)
      PROVE  Place(rows, r) < Place(rows, s)
  BY <1>1, <1>4, <1>7
<1>8. QED
  BY <1>2, <1>5, <1>6, <1>7

\* What a numbered row is.
LEMMA NumberedRow ==
    ASSUME NEW rows, InOrder(rows), next_id \in Nat \ {0}, NEW x \in S!Numbered(rows)
    PROVE  \E r \in rows :
               /\ x = [r EXCEPT !.id = Place(rows, r)] /\ x.id = Place(rows, r)
               /\ x.event = r.event /\ x.from_value = r.from_value /\ x.to_value = r.to_value
               /\ x.local_date = r.local_date /\ x.ref = r.ref
               /\ x.id \in Nat \ {0} /\ next_id <= x.id /\ x.id < next_id + S!Cardinality(rows)
<1>1. PICK r \in rows : x = [r EXCEPT !.id = Place(rows, r)]
  BY Placed
<1>2. DOMAIN r = RowFields
  BY DEF InOrder
<1>3. /\ x.id = Place(rows, r)
      /\ x.event = r.event /\ x.from_value = r.from_value /\ x.to_value = r.to_value
      /\ x.local_date = r.local_date /\ x.ref = r.ref
  BY <1>1, <1>2 DEF RowFields
<1>4. /\ Place(rows, r) \in Nat \ {0} /\ next_id <= Place(rows, r)
      /\ Place(rows, r) < next_id + S!Cardinality(rows)
  BY Placed
<1>5. QED
  BY <1>1, <1>3, <1>4

LEMMA NumberedIsChain ==
    ASSUME NEW rows, InOrder(rows), next_id \in Nat \ {0}, NEW v, NEW w, Leads(rows, v, w)
    PROVE  /\ Chain(S!Numbered(rows), w)
           /\ \A x \in S!Numbered(rows) :
                  (\A y \in S!Numbered(rows) : x.id <= y.id) => x.from_value = v
           /\ S!Numbered(rows) = {} => v = w
<1> DEFINE N(r) == [r EXCEPT !.id = Place(rows, r)]
<1>1. S!Numbered(rows) = {N(r) : r \in rows}
  BY Placed
<1>2. ASSUME NEW r \in rows
      PROVE  /\ N(r).id = Place(rows, r) /\ N(r).id \in Int
             /\ N(r).from_value = r.from_value /\ N(r).to_value = r.to_value
  <2>1. DOMAIN r = RowFields /\ Place(rows, r) \in Int
    BY Placed DEF InOrder
  <2>2. QED
    BY <2>1 DEF RowFields
<1>3. ASSUME NEW r \in rows, NEW s \in rows, S!Precedes(r, s) PROVE N(r).id < N(s).id
  BY <1>2, <1>3, Placed
<1>4. ASSUME NEW r \in rows, NEW s \in rows, N(r).id <= N(s).id PROVE r = s \/ S!Precedes(r, s)
  <2>1. N(r).id \in Int /\ N(s).id \in Int
    BY <1>2
  <2>2. S!Precedes(s, r) => N(s).id < N(r).id
    BY <1>3
  <2>3. QED
    BY <1>4, <2>1, <2>2 DEF InOrder
<1> HIDE DEF N
<1>5. ASSUME NEW x \in S!Numbered(rows), NEW y \in S!Numbered(rows), x.id = y.id PROVE x = y
  <2>1. PICK r \in rows, s \in rows : x = N(r) /\ y = N(s)
    BY <1>1
  <2>2. N(r).id <= N(s).id /\ N(s).id <= N(r).id
    BY <1>2, <1>5, <2>1
  <2>3. r = s \/ (S!Precedes(r, s) /\ S!Precedes(s, r))
    BY <1>4, <2>2
  <2>4. r = s
    BY <2>3 DEF InOrder
  <2>5. QED
    BY <2>1, <2>4
<1>6. ASSUME NEW x \in S!Numbered(rows), NEW y \in S!Numbered(rows),
             FollowsIn(S!Numbered(rows), x, y)
      PROVE  x.to_value = y.from_value
  <2>1. PICK r \in rows, s \in rows : x = N(r) /\ y = N(s)
    BY <1>1
  <2>2. N(r).id < N(s).id /\ N(r).id \in Int /\ N(s).id \in Int
    BY <1>2, <1>6, <2>1 DEF FollowsIn
  <2>3. S!Precedes(r, s)
    BY <1>4, <2>2
  <2>4. ASSUME NEW e \in rows, S!Precedes(r, e), S!Precedes(e, s) PROVE FALSE
    <3>1. N(r).id < N(e).id /\ N(e).id < N(s).id /\ N(e).id \in Int
      BY <1>2, <1>3, <2>4
    <3>2. N(e) \in S!Numbered(rows)
      BY <1>1
    <3>3. N(e).id <= N(r).id \/ N(s).id <= N(e).id
      BY <1>6, <2>1, <3>2 DEF FollowsIn
    <3>4. QED
      BY <2>2, <3>1, <3>3
  <2>5. r.to_value = s.from_value
    BY <2>3, <2>4 DEF Leads
  <2>6. QED
    BY <1>2, <2>1, <2>5
<1>7. ASSUME NEW x \in S!Newest(S!Numbered(rows)) PROVE x.to_value = w
  <2>1. x \in S!Numbered(rows) /\ \A y \in S!Numbered(rows) : y.id <= x.id
    BY <1>7 DEF S!Newest
  <2>2. PICK r \in rows : x = N(r)
    BY <1>1, <2>1
  <2>3. ASSUME NEW e \in rows, S!Precedes(r, e) PROVE FALSE
    <3>1. N(r).id < N(e).id /\ N(e).id <= N(r).id /\ N(r).id \in Int /\ N(e).id \in Int
      BY <1>1, <1>2, <1>3, <2>1, <2>2, <2>3
    <3>2. QED
      BY <3>1
  <2>4. QED
    BY <1>2, <2>2, <2>3 DEF Leads
<1>8. ASSUME NEW x \in S!Numbered(rows), \A y \in S!Numbered(rows) : x.id <= y.id
      PROVE  x.from_value = v
  <2>1. PICK r \in rows : x = N(r)
    BY <1>1
  <2>2. ASSUME NEW e \in rows, S!Precedes(e, r) PROVE FALSE
    <3>1. N(e).id < N(r).id /\ N(r).id <= N(e).id /\ N(r).id \in Int /\ N(e).id \in Int
      BY <1>1, <1>2, <1>3, <1>8, <2>1, <2>2
    <3>2. QED
      BY <3>1
  <2>3. QED
    BY <1>2, <2>1, <2>2 DEF Leads
<1>9. S!Numbered(rows) = {} => v = w
  <2>1. \A r \in rows : N(r) \in S!Numbered(rows)
    BY <1>1
  <2>2. S!Numbered(rows) = {} => rows = {}
    BY <2>1
  <2>3. QED
    BY <2>2 DEF Leads
<1>10. QED
  BY <1>5, <1>6, <1>7, <1>8, <1>9 DEF Chain

\* What is due: the rows' numbers carry the ledger on.
LEMMA RowsCarryOn ==
    ASSUME LedgerInv, NEW rows, InOrder(rows), NEW v, NEW w, Leads(rows, v, w), Chain(events, v)
    PROVE  Chain(events \cup S!Numbered(rows), w)
<1>1. PICK n \in Nat \ {0} : n = next_id
  BY DEF LedgerInv, Shapes
<1>2. \A r \in events : r.id \in Int /\ r.id < n
  BY <1>1 DEF LedgerInv, Shapes, HaveIds
<1>3. \A r \in S!Numbered(rows) : r.id \in Int /\ n <= r.id
  BY <1>1, NumberedRow
<1>4. PICK new : new = S!Numbered(rows)
  OBVIOUS
<1>5. /\ Chain(new, w)
      /\ \A x \in new : (\A y \in new : x.id <= y.id) => x.from_value = v
      /\ new = {} => v = w
  BY <1>1, <1>4, NumberedIsChain
<1>6. Chain(events \cup new, w)
  BY <1>2, <1>3, <1>4, <1>5, ChainGrows
<1>7. QED
  BY <1>4, <1>6

Uncrossed(rows) ==
    /\ \A r \in rows : r.event = "freeze_used" => r.local_date \notin S!CoveredDates
    /\ CoveredOnce(rows)

LEMMA CoveredOnceStill ==
    ASSUME LedgerInv, NEW rows, InOrder(rows), CoveredOnce(events), Uncrossed(rows)
    PROVE  CoveredOnce(events \cup S!Numbered(rows))
<1>1. next_id \in Nat \ {0}
  BY DEF LedgerInv, Shapes
<1>2. ASSUME NEW x \in events, NEW y \in S!Numbered(rows),
             x.event = "freeze_used", y.event = "freeze_used"
      PROVE  x.local_date # y.local_date
  <2>1. PICK r \in rows : r.event = y.event /\ r.local_date = y.local_date
    BY <1>1, NumberedRow
  <2>2. x.local_date \in S!CoveredDates
    BY <1>2 DEF S!CoveredDates
  <2>3. QED
    BY <1>2, <2>1, <2>2 DEF Uncrossed
<1>3. ASSUME NEW x \in S!Numbered(rows), NEW y \in S!Numbered(rows),
             x.event = "freeze_used", y.event = "freeze_used", x.local_date = y.local_date
      PROVE  x = y
  <2>1. PICK r \in rows : /\ x = [r EXCEPT !.id = Place(rows, r)]
                          /\ r.event = x.event /\ r.local_date = x.local_date
    BY <1>1, NumberedRow
  <2>2. PICK s \in rows : /\ y = [s EXCEPT !.id = Place(rows, s)]
                          /\ s.event = y.event /\ s.local_date = y.local_date
    BY <1>1, NumberedRow
  <2>3. r = s
    BY <1>3, <2>1, <2>2 DEF Uncrossed, CoveredOnce
  <2>4. QED
    BY <2>1, <2>2, <2>3
<1>4. QED
  BY <1>2, <1>3 DEF CoveredOnce

LEMMA FlushKeeps ==
    ASSUME LedgerInv, NEW q \in Requests, NEW after, NEW rows, S!Flush(q, after, rows),
           UNCHANGED <<clock, zone, row, events, committed, cached, crossed>>,
           transaction[q].phase = "read", InOrder(rows), WholeRow(after),
           transaction[q].kind = "repair" =>
               \E r : rows = {r} /\ r.event = "repaired" /\ r.ref = transaction[q].found,
           transaction[q].kind # "repair" => \A r \in rows : r.event = "repaired" => r.ref = 0,
           ~crossed =>
               /\ Leads(rows, row.streak, after.streak) /\ Uncrossed(rows)
               /\ after.attempts = (IF transaction[q].kind = "submit" THEN row.attempts + 1
                                                                      ELSE row.attempts)
               /\ after.last_active <=
                      clock + (IF transaction[q].kind = "zone" THEN transaction[q].key ELSE zone)
               /\ transaction[q].kind = "submit" => after.last_active = transaction[q].today
    PROVE  LedgerInv'
<1>1. /\ transaction' = [transaction EXCEPT ![q].phase = "flushed", ![q].after = after,
                                            ![q].rows = S!Numbered(rows)]
      /\ next_id' = next_id + S!Cardinality(rows)
  BY DEF S!Flush
<1>2. /\ SoundOp(transaction[q]) /\ DOMAIN transaction[q] = OpFields
      /\ ~crossed => SteadyOp(transaction[q])
  BY InProgress
<1>3. PICK o : o = transaction'[q]
  OBVIOUS
<1>4. /\ DOMAIN transaction' = Requests
      /\ \A p \in Requests \ {q} : transaction'[p] = transaction[p]
      /\ o = [transaction[q] EXCEPT !.phase = "flushed", !.after = after, !.rows = S!Numbered(rows)]
  BY <1>1, <1>3 DEF LedgerInv, Shapes
<1>5. /\ DOMAIN o = OpFields /\ o.phase = "flushed" /\ o.after = after
      /\ o.rows = S!Numbered(rows)
      /\ o.kind = transaction[q].kind /\ o.key = transaction[q].key
      /\ o.today = transaction[q].today /\ o.found = transaction[q].found
      /\ o.seen = transaction[q].seen
  BY <1>2, <1>4 DEF OpFields
<1>6. next_id \in Nat \ {0} /\ S!Cardinality(rows) \in Nat
      /\ next_id' \in Nat /\ next_id <= next_id'
  BY <1>1, Placed DEF LedgerInv, Shapes
<1>7. HaveIds(o.rows)'
  <2>1. \A x \in S!Numbered(rows) : x.id \in Nat \ {0} /\ x.id < next_id + S!Cardinality(rows)
    BY <1>6, NumberedRow
  <2>2. QED
    BY <1>1, <1>5, <2>1 DEF HaveIds
<1>8. ItsRepair(o)
  <2>1. CASE o.kind = "repair"
    <3>1. PICK r : rows = {r} /\ r.event = "repaired" /\ r.ref = o.found
      BY <1>5, <2>1
    <3>2. PICK x : x = [r EXCEPT !.id = Place(rows, r)]
      OBVIOUS
    <3>3. S!Numbered(rows) = {x}
      BY <1>6, <3>1, <3>2, Placed
    <3>4. x.event = "repaired" /\ x.ref = o.found
      <4>1. r \in rows /\ DOMAIN r = RowFields
        BY <3>1 DEF InOrder
      <4>2. QED
        BY <3>1, <3>2, <4>1 DEF RowFields
    <3>5. /\ o.found \in Nat \ {0}
          /\ \A e \in events : e.event = "repaired" => e.ref # o.found
      BY <1>2, <1>5, <2>1 DEF SoundOp, ItsRepair, S!InTransaction
    <3>6. QED
      BY <1>5, <2>1, <3>3, <3>4, <3>5 DEF ItsRepair
  <2>2. CASE o.kind # "repair"
    <3>1. \A x \in S!Numbered(rows) : x.event = "repaired" => x.ref = 0
      BY <1>5, <1>6, <2>2, NumberedRow
    <3>2. QED
      BY <1>5, <2>2, <3>1 DEF ItsRepair
  <2>3. QED
    BY <2>1, <2>2
<1>9. SoundOp(o)'
  <2>1. Shapely(o)
    BY <1>2, <1>5 DEF SoundOp, Shapely
  <2>2. Shapely(o)' /\ ItsRepair(o)'
    BY <1>8, <2>1 DEF Shapely, WholeRow, S!Columns, ItsRepair, S!InTransaction
  <2>3. QED
    BY <1>7, <2>2 DEF SoundOp
<1>10. ASSUME ~crossed PROVE SteadyOp(o)
  <2>1. SteadyOp(transaction[q]) /\ Accounts(events, row, committed, clock + zone)
    BY <1>2, <1>10 DEF LedgerInv, Undisturbed
  <2>2. Chain(events \cup S!Numbered(rows), after.streak)
    BY <1>10, <2>1, RowsCarryOn DEF Accounts
  <2>3. CoveredOnce(events \cup S!Numbered(rows))
    BY <1>10, <2>1, CoveredOnceStill DEF Accounts
  <2>4. after.attempts = (IF o.kind = "submit" THEN committed + 1 ELSE committed) + 2
    BY <1>5, <1>10, <2>1 DEF Accounts, LedgerInv, Shapes
  <2>5. after.last_active <= clock + (IF o.kind = "zone" THEN o.key ELSE zone)
    BY <1>5, <1>10
  <2>6. Accounts(events \cup o.rows, o.after,
                 IF o.kind = "submit" THEN committed + 1 ELSE committed,
                 clock + (IF o.kind = "zone" THEN o.key ELSE zone))
    BY <1>5, <2>2, <2>3, <2>4, <2>5 DEF Accounts
  <2>7. QED
    BY <1>5, <1>10, <2>1, <2>6 DEF SteadyOp
<1>11. /\ S!InTransaction(transaction[q])
       /\ \A p \in Requests \ {q} :
              S!InTransaction(transaction[p]) => ~SameLock(transaction[p], o)
       /\ ~crossed => \A p \in Requests \ {q} :
              S!Exposed(transaction[p]) => S!Family(transaction[p], p) = S!Family(o, q)
  <2>1. S!InTransaction(transaction[q])
    BY DEF S!InTransaction
  <2>2. QED
    BY <1>5, <2>1, StaysIn
<1>12. ~crossed' =>
           /\ ~crossed /\ (o = S!Idle \/ SteadyOp(o))
           /\ S!Exposed(o) =>
                  \A p \in Requests \ {q} :
                      S!Exposed(transaction[p]) => S!Family(transaction[p], p) = S!Family(o, q)
  BY <1>10, <1>11
<1>13. o.phase # "committed"
  BY <1>5
<1>14. QED
  BY <1>3, <1>4, <1>6, <1>9, <1>11, <1>12, <1>13, OneGoesOn

\* A single row is in order with itself.
LEMMA OneRow ==
    ASSUME NEW r, DOMAIN r = RowFields, ~S!Precedes(r, r)
    PROVE  /\ InOrder({r})
           /\ \A v, w : r.from_value = v /\ r.to_value = w => Leads({r}, v, w)
<1>1. IsFiniteSet({r})
  BY FS_Singleton
<1>2. InOrder({r})
  BY <1>1 DEF InOrder
<1>3. QED
  BY <1>2 DEF Leads

LEMMA FlushRepairKeeps ==
    ASSUME LedgerInv, NEW q \in Requests, S!FlushRepair(q)
    PROVE  LedgerInv'
<1>1. /\ transaction[q].kind = "repair" /\ transaction[q].phase = "read"
      /\ UNCHANGED <<clock, zone, row, events, committed, cached, crossed>>
  BY DEF S!FlushRepair, S!redis
<1>2. /\ SoundOp(transaction[q]) /\ DOMAIN transaction[q] = OpFields
      /\ ~crossed => SteadyOp(transaction[q])
  BY <1>1, InProgress
<1>3. PICK s, restored, r, after :
          /\ s = transaction[q].seen /\ restored = transaction[q].today
          /\ r = S!Row("repaired", s.streak, restored, S!Today, transaction[q].found,
                       transaction[q].at)
          /\ after = [s EXCEPT !.streak = restored]
  OBVIOUS
<1>4. S!Flush(q, after, {r})
  BY <1>3 DEF S!FlushRepair
<1>5. /\ DOMAIN r = RowFields /\ r.event = "repaired" /\ r.ref = transaction[q].found
      /\ r.from_value = s.streak /\ r.to_value = restored
  BY <1>3 DEF S!Row, RowFields
<1>6. DOMAIN s = S!Columns /\ s.last_active \in Int
  BY <1>2, <1>3 DEF SoundOp, Shapely, WholeRow
<1>7. /\ DOMAIN after = S!Columns /\ after.streak = restored
      /\ after.last_active = s.last_active /\ after.attempts = s.attempts
  BY <1>3, <1>6 DEF S!Columns
<1>8. ~S!Precedes(r, r)
  BY <1>5 DEF S!Precedes, S!IsTransition
<1>9. InOrder({r}) /\ Leads({r}, s.streak, restored)
  BY <1>5, <1>8, OneRow
<1>10. ASSUME ~crossed
       PROVE  /\ s = row /\ Uncrossed({r})
              /\ row.last_active <= clock + zone
  <2>1. s = row
    BY <1>1, <1>2, <1>3, <1>10 DEF SteadyOp
  <2>2. Uncrossed({r})
    BY <1>5 DEF Uncrossed, CoveredOnce
  <2>3. QED
    BY <1>10, <2>1, <2>2 DEF LedgerInv, Undisturbed, Accounts
<1>11. WholeRow(after)
  BY <1>6, <1>7 DEF WholeRow
<1>12. \E e : {r} = {e} /\ e.event = "repaired" /\ e.ref = transaction[q].found
  BY <1>5
<1>13. ~crossed =>
           /\ Leads({r}, row.streak, after.streak) /\ Uncrossed({r})
           /\ after.attempts = row.attempts /\ after.last_active <= clock + zone
  BY <1>7, <1>9, <1>10
<1>14. QED
  BY <1>1, <1>4, <1>9, <1>11, <1>12, <1>13, FlushKeeps

LEMMA FlushZoneKeeps ==
    ASSUME LedgerInv, NEW q \in Requests, S!FlushZone(q)
    PROVE  LedgerInv'
<1>1. /\ transaction[q].kind = "zone" /\ transaction[q].phase = "read"
      /\ UNCHANGED <<clock, zone, row, events, committed, cached, crossed>>
  BY DEF S!FlushZone, S!redis
<1>2. /\ SoundOp(transaction[q]) /\ DOMAIN transaction[q] = OpFields
      /\ ~crossed => SteadyOp(transaction[q])
  BY <1>1, InProgress
<1>3. PICK today \in Int, key \in Int : today = transaction[q].today /\ key = transaction[q].key
  BY <1>1, <1>2 DEF SoundOp, Shapely
<1>4. PICK s : s = transaction[q].seen
  OBVIOUS
<1>5. DOMAIN s = S!Columns /\ s.last_active \in Int
  BY <1>2, <1>4 DEF SoundOp, Shapely, WholeRow
<1>6. CASE today < s.last_active
  <2>1. PICK r, after :
            /\ r = S!Row("repaired", s.streak, s.streak, today, 0, transaction[q].at)
            /\ after = [s EXCEPT !.last_active = today]
    OBVIOUS
  <2>2. S!Flush(q, after, {r})
    BY <1>3, <1>4, <1>6, <2>1 DEF S!FlushZone
  <2>3. /\ DOMAIN r = RowFields /\ r.event = "repaired" /\ r.ref = 0
        /\ r.from_value = s.streak /\ r.to_value = s.streak
    BY <2>1 DEF S!Row, RowFields
  <2>4. /\ DOMAIN after = S!Columns /\ after.streak = s.streak
        /\ after.last_active = today /\ after.attempts = s.attempts
    BY <1>5, <2>1 DEF S!Columns
  <2>5. ~S!Precedes(r, r)
    BY <2>3 DEF S!Precedes, S!IsTransition
  <2>6. InOrder({r}) /\ Leads({r}, s.streak, s.streak)
    BY <2>3, <2>5, OneRow
  <2>7. ~crossed => s = row /\ today <= clock + key
    BY <1>1, <1>2, <1>3, <1>4 DEF SteadyOp
  <2>8. Uncrossed({r})
    BY <2>3 DEF Uncrossed, CoveredOnce
  <2>9. WholeRow(after)
    BY <1>3, <2>4 DEF WholeRow
  <2>10. ~crossed =>
             /\ Leads({r}, row.streak, after.streak) /\ Uncrossed({r})
             /\ after.attempts = row.attempts /\ after.last_active <= clock + key
    BY <2>4, <2>6, <2>7, <2>8
  <2>11. \A e \in {r} : e.event = "repaired" => e.ref = 0
    BY <2>3
  <2>12. QED
    BY <1>1, <1>3, <2>2, <2>6, <2>9, <2>10, <2>11, FlushKeeps
<1>7. CASE ~(today < s.last_active)
  <2>1. transaction' = [transaction EXCEPT ![q].phase = "flushed"] /\ next_id' = next_id
    BY <1>3, <1>4, <1>7 DEF S!FlushZone
  <2>2. PICK o : o = transaction'[q]
    OBVIOUS
  <2>3. /\ DOMAIN transaction' = Requests
        /\ \A p \in Requests \ {q} : transaction'[p] = transaction[p]
        /\ o = [transaction[q] EXCEPT !.phase = "flushed"]
    BY <2>1, <2>2 DEF LedgerInv, Shapes
  <2>4. /\ DOMAIN o = OpFields /\ o.phase = "flushed" /\ o.kind = "zone"
        /\ o.rows = transaction[q].rows /\ o.after = transaction[q].after
        /\ o.key = key /\ o.today = today /\ o.seen = s
    BY <1>1, <1>2, <1>3, <1>4, <2>3 DEF OpFields
  <2>5. SoundOp(o)'
    BY <1>1, <1>2, <1>3, <1>4, <2>1, <2>4
       DEF SoundOp, Shapely, HaveIds, ItsRepair, S!InTransaction, WholeRow, S!Columns
  <2>6. ASSUME ~crossed PROVE SteadyOp(o)
    <3>1. /\ transaction[q].after = row /\ transaction[q].rows = {} /\ s = row
          /\ today <= clock + key
      BY <1>1, <1>2, <1>3, <1>4, <2>6 DEF SteadyOp
    <3>2. Accounts(events, row, committed, clock + zone)
      BY <2>6 DEF LedgerInv, Undisturbed
    <3>3. row.last_active <= clock + key
      BY <1>3, <1>5, <1>7, <3>1 DEF LedgerInv, Shapes
    <3>4. Accounts(events \cup {}, row, committed, clock + key)
      <4>1. events \cup {} = events
        OBVIOUS
      <4>2. QED
        BY <3>2, <3>3, <4>1 DEF Accounts
    <3>5. QED
      BY <2>4, <3>1, <3>4 DEF SteadyOp
  <2>7. S!InTransaction(transaction[q])
    BY <1>1 DEF S!InTransaction
  <2>8. /\ \A p \in Requests \ {q} :
               S!InTransaction(transaction[p]) => ~SameLock(transaction[p], o)
        /\ ~crossed => \A p \in Requests \ {q} :
               S!Exposed(transaction[p]) => S!Family(transaction[p], p) = S!Family(o, q)
    BY <1>1, <2>4, <2>7, StaysIn
  <2>9. next_id' \in Nat /\ next_id <= next_id' /\ o.phase # "committed" /\ (crossed' <=> crossed)
    BY <1>1, <2>1, <2>4 DEF LedgerInv, Shapes
  <2>10. QED
    BY <1>1, <2>2, <2>3, <2>5, <2>6, <2>8, <2>9, OneGoesOn
<1>8. QED
  BY <1>6, <1>7

\* What _update_streak_and_attempt_count adds on the first submission of a day:
\* the days paid for, the transition, perhaps the freeze earned.
SubmitAdds(s, today, at, paid, value, event, earned, after) ==
    /\ paid \subseteq S!MissedDates(s.last_active, today) \ S!CoveredDates
    /\ event \in {"extended", "reset"}
    /\ earned \in {{}, {S!Row("adjusted", value, value, today, 0, at)}}
    /\ S!Transition(s, today, at).rows =
           {S!Row("freeze_used", s.streak, s.streak, d, 0, at) : d \in paid}
           \cup {S!Row(event, s.streak, value, today, 0, at)} \cup earned
    /\ S!Transition(s, today, at).after = after
    /\ DOMAIN after = S!Columns /\ after.streak = value
    /\ after.last_active = today /\ after.attempts = s.attempts + 1

LEMMA TransitionAdds ==
    ASSUME NEW s, DOMAIN s = S!Columns, NEW today, NEW at, s.last_active # today
    PROVE  \E paid, value, event, earned, after :
               SubmitAdds(s, today, at, paid, value, event, earned, after)
<1> DEFINE missed == S!MissedDates(s.last_active, today)
           uncovered == missed \ S!CoveredDates
           saved == missed # {} /\ S!Cardinality(uncovered) <= S!Min({s.freezes, FREEZE_MAX})
           extends == s.last_active = today - 1 \/ saved
           paid == IF saved THEN uncovered ELSE {}
           value == IF extends THEN s.streak + 1 ELSE 1
           event == IF extends THEN "extended" ELSE "reset"
           balance == s.freezes - S!Cardinality(paid)
           earns == extends /\ S!EarnsFreeze(value, balance)
           earned == IF earns THEN {S!Row("adjusted", value, value, today, 0, at)} ELSE {}
           counted == [s EXCEPT !.attempts = @ + 1]
           after == [counted EXCEPT !.streak = value, !.last_active = today,
                                    !.freezes = IF earns THEN balance + 1 ELSE balance]
<1>1. /\ S!Transition(s, today, at).after = after
      /\ S!Transition(s, today, at).rows =
             {S!Row("freeze_used", s.streak, s.streak, d, 0, at) : d \in paid}
             \cup {S!Row(event, s.streak, value, today, 0, at)} \cup earned
  BY DEF S!Transition
<1>2. /\ DOMAIN after = S!Columns /\ after.streak = value
      /\ after.last_active = today /\ after.attempts = s.attempts + 1
  <2>1. DOMAIN counted = S!Columns /\ counted.attempts = s.attempts + 1
    BY DEF S!Columns
  <2> HIDE DEF counted, value, balance, earns
  <2>2. QED
    BY <2>1 DEF S!Columns
<1>3. paid \subseteq uncovered /\ event \in {"extended", "reset"}
      /\ earned \in {{}, {S!Row("adjusted", value, value, today, 0, at)}}
  OBVIOUS
<1> HIDE DEF missed, uncovered, saved, extends, paid, value, event, balance, earns, earned, counted, after
<1>4. PICK p, w, e, f, g : p = paid /\ w = value /\ e = event /\ f = earned /\ g = after
  OBVIOUS
<1>5. p \subseteq S!MissedDates(s.last_active, today) \ S!CoveredDates
  BY <1>3, <1>4 DEF uncovered, missed
<1>6. /\ e \in {"extended", "reset"} /\ f \in {{}, {S!Row("adjusted", w, w, today, 0, at)}}
      /\ S!Transition(s, today, at).after = g
      /\ DOMAIN g = S!Columns /\ g.streak = w
      /\ g.last_active = today /\ g.attempts = s.attempts + 1
  BY <1>1, <1>2, <1>3, <1>4
<1>7. S!Transition(s, today, at).rows =
          {S!Row("freeze_used", s.streak, s.streak, d, 0, at) : d \in p}
          \cup {S!Row(e, s.streak, w, today, 0, at)} \cup f
  BY <1>1, <1>4
<1>8. SubmitAdds(s, today, at, p, w, e, f, g)
  BY <1>5, <1>6, <1>7 DEF SubmitAdds
<1>9. QED
  BY <1>8

LEMMA SubmitRows ==
    ASSUME NEW days, IsFiniteSet(days), days \subseteq Int, NEW v, NEW w, NEW today, NEW at, NEW event,
           event \in {"extended", "reset"}, NEW earned,
           earned \in {{}, {S!Row("adjusted", w, w, today, 0, at)}}, NEW rows,
           rows = {S!Row("freeze_used", v, v, d, 0, at) : d \in days}
                  \cup {S!Row(event, v, w, today, 0, at)} \cup earned,
           \A d \in days : d \notin S!CoveredDates
    PROVE  /\ InOrder(rows) /\ Leads(rows, v, w) /\ Uncrossed(rows)
           /\ \A r \in rows : r.ref = 0
<1> DEFINE F(d) == S!Row("freeze_used", v, v, d, 0, at)
           freezes == {F(d) : d \in days}
           t == S!Row(event, v, w, today, 0, at)
           a == S!Row("adjusted", w, w, today, 0, at)
<1>1. \A d : /\ DOMAIN F(d) = RowFields /\ F(d).event = "freeze_used" /\ F(d).from_value = v
             /\ F(d).to_value = v /\ F(d).local_date = d /\ F(d).ref = 0
  BY DEF S!Row, RowFields
<1>2. /\ DOMAIN t = RowFields /\ t.event \in {"extended", "reset"} /\ t.from_value = v
      /\ t.to_value = w /\ t.ref = 0
  BY DEF S!Row, RowFields
<1>3. /\ DOMAIN a = RowFields /\ a.event = "adjusted" /\ a.from_value = w
      /\ a.to_value = w /\ a.ref = 0
  BY DEF S!Row, RowFields
<1>4. rows = freezes \cup {t} \cup earned /\ earned \in {{}, {a}}
  OBVIOUS
<1>5. IsFiniteSet(rows)
  <2>1. PICK f : f = [d \in days |-> F(d)]
    OBVIOUS
  <2>2. f \in Surjection(days, freezes)
    BY <2>1 DEF Surjection
  <2>3. IsFiniteSet(freezes)
    BY <2>2, FS_Surjection
  <2>4. IsFiniteSet({t}) /\ IsFiniteSet(earned)
    <3>1. IsFiniteSet({t}) /\ IsFiniteSet({a}) /\ IsFiniteSet({})
      BY FS_EmptySet, FS_Singleton
    <3>2. earned = {} \/ earned = {a}
      BY <1>4
    <3> HIDE DEF t, a
    <3>3. QED
      BY <3>1, <3>2
  <2>5. IsFiniteSet(freezes \cup {t})
    BY <2>3, <2>4, FS_Union
  <2>6. IsFiniteSet((freezes \cup {t}) \cup earned)
    BY <2>4, <2>5, FS_Union
  <2> HIDE DEF freezes, t, a
  <2>7. QED
    BY <1>4, <2>6
<1> HIDE DEF F, freezes, t, a
<1>6. ASSUME NEW r \in rows
      PROVE  \/ /\ r.event = "freeze_used" /\ r.from_value = v /\ r.to_value = v
                /\ r.local_date \in days /\ r = F(r.local_date) /\ r.ref = 0
                /\ DOMAIN r = RowFields
             \/ r = t \/ r = a
  BY <1>1, <1>4 DEF freezes
<1>7. t \in rows
  BY <1>4
<1>8. ASSUME NEW r \in rows
      PROVE  DOMAIN r = RowFields /\ ~S!Precedes(r, r) /\ r.ref = 0
  <2>1. r.event = "freeze_used" => r.local_date \in Int
    BY <1>2, <1>3, <1>6
  <2>2. DOMAIN r = RowFields /\ r.ref = 0
    BY <1>2, <1>3, <1>6
  <2>3. QED
    BY <2>1, <2>2 DEF S!Precedes, S!IsTransition
<1>9. ASSUME NEW r \in rows, NEW s \in rows, r # s PROVE S!Precedes(r, s) \/ S!Precedes(s, r)
  <2>1. CASE r.event = "freeze_used" /\ s.event = "freeze_used"
    <3>1. r.local_date \in Int /\ s.local_date \in Int /\ r.local_date # s.local_date
      BY <1>2, <1>3, <1>6, <1>9, <2>1
    <3>2. QED
      BY <2>1, <3>1 DEF S!Precedes
  <2>2. CASE ~(r.event = "freeze_used" /\ s.event = "freeze_used")
    BY <1>2, <1>3, <1>6, <1>9, <2>2 DEF S!Precedes, S!IsTransition
  <2>3. QED
    BY <2>1, <2>2
<1>10. ASSUME NEW r \in rows, NEW e \in rows, NEW s \in rows, S!Precedes(r, e), S!Precedes(e, s)
       PROVE  S!Precedes(r, s)
  <2>1. \A x \in rows : x.event = "freeze_used" => x.local_date \in Int
    BY <1>2, <1>3, <1>6
  <2>2. QED
    BY <1>10, <2>1 DEF S!Precedes, S!IsTransition
<1>11. InOrder(rows)
  BY <1>5, <1>8, <1>9, <1>10 DEF InOrder
<1>12. ASSUME NEW r \in rows, NEW s \in rows, S!Precedes(r, s),
              \A e \in rows : ~(S!Precedes(r, e) /\ S!Precedes(e, s))
       PROVE  r.to_value = s.from_value
  <2>1. CASE r = t \/ r = a
    BY <1>2, <1>3, <1>6, <1>12, <2>1 DEF S!Precedes, S!IsTransition
  <2>2. CASE r.event = "freeze_used" /\ r.to_value = v
    <3>1. s # a
      BY <1>2, <1>3, <1>7, <1>12, <2>2 DEF S!Precedes, S!IsTransition
    <3>2. QED
      BY <1>2, <1>6, <2>2, <3>1
  <2>3. QED
    BY <1>6, <2>1, <2>2
<1>13. ASSUME NEW s \in rows, \A e \in rows : ~S!Precedes(e, s) PROVE s.from_value = v
  BY <1>2, <1>3, <1>6, <1>7, <1>13 DEF S!Precedes, S!IsTransition
<1>14. ASSUME NEW r \in rows, \A e \in rows : ~S!Precedes(r, e) PROVE r.to_value = w
  BY <1>2, <1>3, <1>6, <1>7, <1>14 DEF S!Precedes, S!IsTransition
<1>15. Leads(rows, v, w)
  BY <1>7, <1>12, <1>13, <1>14 DEF Leads
<1>16. Uncrossed(rows)
  BY <1>2, <1>3, <1>6 DEF Uncrossed, CoveredOnce
<1>17. QED
  BY <1>8, <1>11, <1>15, <1>16

LEMMA FlushSubmitKeeps ==
    ASSUME LedgerInv, NEW q \in Requests, S!FlushSubmit(q)
    PROVE  LedgerInv'
<1>1. /\ transaction[q].kind = "submit" /\ transaction[q].phase = "read"
      /\ UNCHANGED <<clock, zone, row, events, committed, cached, crossed>>
  BY DEF S!FlushSubmit, S!redis
<1>2. /\ SoundOp(transaction[q]) /\ DOMAIN transaction[q] = OpFields
      /\ ~crossed => SteadyOp(transaction[q])
  BY <1>1, InProgress
<1>3. PICK today \in Int : today = transaction[q].today
  BY <1>1, <1>2 DEF SoundOp, Shapely
<1>4. PICK s, at : s = transaction[q].seen /\ at = transaction[q].at
  OBVIOUS
<1>5. DOMAIN s = S!Columns /\ s.last_active \in Int
  BY <1>2, <1>4 DEF SoundOp, Shapely, WholeRow
<1>6. S!Flush(q, S!Transition(s, today, at).after, S!Transition(s, today, at).rows)
  BY <1>3, <1>4 DEF S!FlushSubmit
<1>7. ~crossed => s = row /\ today <= clock + zone
  BY <1>1, <1>2, <1>3, <1>4 DEF SteadyOp
<1>8. PICK rows, after :
          rows = S!Transition(s, today, at).rows /\ after = S!Transition(s, today, at).after
  OBVIOUS
<1>9. /\ InOrder(rows) /\ Leads(rows, s.streak, after.streak) /\ Uncrossed(rows)
      /\ \A r \in rows : r.ref = 0
      /\ DOMAIN after = S!Columns /\ after.last_active = today
      /\ after.attempts = s.attempts + 1
  <2>1. CASE s.last_active = today
    <3>1. rows = {} /\ after = [s EXCEPT !.attempts = @ + 1]
      BY <1>8, <2>1 DEF S!Transition
    <3>2. /\ DOMAIN after = S!Columns /\ after.last_active = today
          /\ after.attempts = s.attempts + 1 /\ after.streak = s.streak
      BY <1>5, <2>1, <3>1 DEF S!Columns
    <3>3. InOrder(rows) /\ Leads(rows, s.streak, after.streak) /\ Uncrossed(rows)
      BY <3>1, <3>2, FS_EmptySet DEF InOrder, Leads, Uncrossed, CoveredOnce
    <3>4. QED
      BY <3>1, <3>2, <3>3
  <2>2. CASE s.last_active # today
    <3>1. PICK paid, value, event, earned, new :
              SubmitAdds(s, today, at, paid, value, event, earned, new)
      BY <1>5, <2>2, TransitionAdds
    <3>2. /\ paid \subseteq S!MissedDates(s.last_active, today)
          /\ \A d \in paid : d \notin S!CoveredDates
          /\ event \in {"extended", "reset"}
          /\ earned \in {{}, {S!Row("adjusted", value, value, today, 0, at)}}
          /\ rows = {S!Row("freeze_used", s.streak, s.streak, d, 0, at) : d \in paid}
                    \cup {S!Row(event, s.streak, value, today, 0, at)} \cup earned
          /\ after = new
          /\ DOMAIN new = S!Columns /\ new.streak = value
          /\ new.last_active = today /\ new.attempts = s.attempts + 1
      BY <1>8, <3>1 DEF SubmitAdds
    <3>3. IsFiniteSet(paid) /\ paid \subseteq Int
      <4>1. s.last_active + 1 \in Int /\ today - 1 \in Int
        BY <1>5
      <4>2. /\ IsFiniteSet(S!MissedDates(s.last_active, today))
            /\ S!MissedDates(s.last_active, today) \subseteq Int
        BY <4>1, FS_Interval DEF S!MissedDates
      <4>3. QED
        BY <3>2, <4>2, FS_Subset
    <3>4. /\ InOrder(rows) /\ Leads(rows, s.streak, value) /\ Uncrossed(rows)
          /\ \A r \in rows : r.ref = 0
      <4>1. PICK v, w : v = s.streak /\ w = value
        OBVIOUS
      <4>2. event \in {"extended", "reset"} /\ \A d \in paid : d \notin S!CoveredDates
        BY <3>2
      <4>3. earned \in {{}, {S!Row("adjusted", w, w, today, 0, at)}}
        BY <3>2, <4>1
      <4>4. rows = {S!Row("freeze_used", v, v, d, 0, at) : d \in paid}
                   \cup {S!Row(event, v, w, today, 0, at)} \cup earned
        BY <3>2, <4>1
      <4>5. /\ InOrder(rows) /\ Leads(rows, v, w) /\ Uncrossed(rows)
            /\ \A r \in rows : r.ref = 0
        BY <3>3, <4>2, <4>3, <4>4, SubmitRows, SMTT(30)
      <4>6. QED
        BY <4>1, <4>5
    <3>5. QED
      BY <3>2, <3>4
  <2>3. QED
    BY <2>1, <2>2
<1>10. S!Flush(q, after, rows) /\ WholeRow(after)
  BY <1>3, <1>6, <1>8, <1>9 DEF WholeRow
<1>11. ~crossed =>
           /\ Leads(rows, row.streak, after.streak) /\ Uncrossed(rows)
           /\ after.attempts = row.attempts + 1 /\ after.last_active <= clock + zone
           /\ after.last_active = transaction[q].today
  BY <1>3, <1>7, <1>9
<1>12. \A r \in rows : r.event = "repaired" => r.ref = 0
  BY <1>9
<1>13. InOrder(rows)
  BY <1>9
<1>14. QED
  BY <1>1, <1>10, <1>11, <1>12, <1>13, FlushKeeps

LEMMA FillKeeps ==
    ASSUME LedgerInv, NEW q \in Requests, NEW d \in FillDates, S!Fill(q, d)
    PROVE  LedgerInv'
<1>1. PICK r : r = S!Row("freeze_used", row.streak, row.streak, d, 0, clock)
  OBVIOUS
<1>2. PICK new : new = S!Op("fill", "flushed", None, d)
  OBVIOUS
<1>3. PICK o : o = [new EXCEPT !.rows = S!Numbered({r})]
  OBVIOUS
<1>4. /\ transaction' = [transaction EXCEPT ![q] = o]
      /\ crossed' = (crossed \/ S!Crosses(q, o))
      /\ next_id' = next_id + 1 /\ d \notin S!CoveredDates
      /\ UNCHANGED <<clock, zone, row, events, committed, cached>>
  BY <1>1, <1>2, <1>3 DEF S!Fill, S!Expose, S!redis
<1>5. /\ DOMAIN new = OpFields /\ WholeRow(new.seen) /\ WholeRow(new.after)
      /\ new.kind = "fill" /\ new.phase = "flushed" /\ new.seen = row /\ new.after = row
  BY <1>2, NewOp
<1>6. /\ DOMAIN o = OpFields /\ o.kind = "fill" /\ o.phase = "flushed"
      /\ o.seen = row /\ o.after = row /\ o.rows = S!Numbered({r})
  BY <1>3, <1>5 DEF OpFields
<1>7. /\ DOMAIN r = RowFields /\ r.event = "freeze_used" /\ r.ref = 0 /\ r.local_date = d
      /\ r.from_value = row.streak /\ r.to_value = row.streak
  BY <1>1 DEF S!Row, RowFields
<1>8. InOrder({r}) /\ Leads({r}, row.streak, row.streak)
  <2>1. d \in Int /\ ~S!Precedes(r, r)
    BY <1>7, StreakAssumption DEF S!Precedes, S!IsTransition
  <2>2. QED
    BY <1>7, <2>1, OneRow
<1>9. next_id \in Nat \ {0} /\ next_id' \in Nat /\ next_id <= next_id'
  BY <1>4 DEF LedgerInv, Shapes
<1>10. S!Cardinality({r}) = 1
  BY FS_Singleton, StreakCount
<1>11. HaveIds(o.rows)'
  <2>1. \A x \in S!Numbered({r}) : x.id \in Nat \ {0} /\ x.id < next_id + 1
    BY <1>8, <1>9, <1>10, NumberedRow
  <2>2. QED
    BY <1>4, <1>6, <2>1 DEF HaveIds
<1>12. SoundOp(o)'
  <2>1. \A x \in S!Numbered({r}) : x.event # "repaired"
    <3>1. ASSUME NEW x \in S!Numbered({r}) PROVE x.event = "freeze_used"
      <4>1. PICK e \in {r} : x.event = e.event
        BY <1>8, <1>9, NumberedRow
      <4>2. QED
        BY <1>7, <4>1
    <3>2. QED
      BY <3>1
  <2>2. Shapely(o)'
    BY <1>5, <1>6 DEF Shapely, WholeRow, S!Columns, LedgerInv, Shapes
  <2>3. ItsRepair(o)'
    BY <1>6, <2>1 DEF ItsRepair
  <2>4. QED
    BY <1>11, <2>2, <2>3 DEF SoundOp
<1>13. ASSUME ~crossed PROVE SteadyOp(o)
  <2>1. Accounts(events, row, committed, clock + zone)
    BY <1>13 DEF LedgerInv, Undisturbed
  <2>2. Chain(events \cup S!Numbered({r}), row.streak)
    BY <1>8, <2>1, RowsCarryOn DEF Accounts
  <2>3. Uncrossed({r})
    BY <1>4, <1>7 DEF Uncrossed, CoveredOnce
  <2>4. CoveredOnce(events \cup S!Numbered({r}))
    BY <1>8, <2>1, <2>3, CoveredOnceStill DEF Accounts
  <2>5. Accounts(events \cup o.rows, o.after, committed, clock + zone)
    BY <1>6, <2>1, <2>2, <2>4 DEF Accounts
  <2>6. QED
    BY <1>6, <2>5 DEF SteadyOp
<1>14. /\ DOMAIN transaction' = Requests /\ transaction'[q] = o
       /\ \A p \in Requests \ {q} : transaction'[p] = transaction[p]
  BY <1>4, Begun
<1>15. \A p \in Requests \ {q} : ~SameLock(transaction[p], o)
  BY <1>6 DEF SameLock
<1>16. ~crossed' =>
           /\ ~crossed /\ (o = S!Idle \/ SteadyOp(o))
           /\ S!Exposed(o) =>
                  \A p \in Requests \ {q} :
                      S!Exposed(transaction[p]) => S!Family(transaction[p], p) = S!Family(o, q)
  BY <1>4, <1>13 DEF S!Crosses
<1>17. o.phase # "committed"
  BY <1>6
<1>18. QED
  BY <1>4, <1>9, <1>12, <1>14, <1>15, <1>16, <1>17, OneGoesOn

\* Time alone, and what is remembered of the reservations, disturbs nothing.
LEMMA TimePasses ==
    ASSUME LedgerInv, clock' \in Int, clock <= clock',
           UNCHANGED <<zone, row, events, next_id, transaction, committed, cached, crossed>>
    PROVE  LedgerInv'
<1>1. Shapes' /\ Apart'
  BY DEF LedgerInv, Shapes, WholeRow, S!Columns, HaveIds, Apart, S!InTransaction, SameLock
<1>2. EachHasItsRepair'
  <2>1. ToBeStored' \subseteq ToBeStored
    BY DEF ToBeStored
  <2>2. QED
    BY <2>1, NothingStored DEF LedgerInv
<1>3. ASSUME NEW q \in Requests, S!Active(q)' PROVE SoundOp(transaction[q])'
  BY <1>3 DEF LedgerInv, S!Active, SoundOp, Shapely, WholeRow, S!Columns, HaveIds, ItsRepair,
              S!InTransaction
<1>4. Undisturbed'
  <2>1. SUFFICES ASSUME ~crossed'
                 PROVE  /\ OneFamily'
                        /\ \A p \in Requests : S!Active(p)' => SteadyOp(transaction[p])'
                        /\ Accounts(events, row, committed, clock + zone)'
    BY DEF Undisturbed
  <2>2. /\ ~crossed /\ OneFamily /\ Accounts(events, row, committed, clock + zone)
        /\ clock \in Int /\ zone \in Int /\ WholeRow(row)
    BY <2>1 DEF LedgerInv, Undisturbed, Shapes
  <2>3. OneFamily'
    BY <2>2 DEF OneFamily, S!Exposed, S!InTransaction, S!Family
  <2>4. ASSUME NEW ledger, NEW s, NEW count, NEW z \in Int, s.last_active \in Int,
               Accounts(ledger, s, count, clock + z)
        PROVE  Accounts(ledger, s, count, clock' + z)
    BY <2>2, <2>4 DEF Accounts
  <2>5. ASSUME NEW p \in Requests, S!Active(p)' PROVE SteadyOp(transaction[p])'
    <3>1. PICK o : o = transaction[p]
      OBVIOUS
    <3>2. SteadyOp(o) /\ Shapely(o)
      BY <2>2, <2>5, <3>1 DEF LedgerInv, Undisturbed, S!Active, SoundOp
    <3>3. o.kind = "submit" => row.last_active <= o.today /\ o.today <= clock' + zone
      BY <2>2, <3>2 DEF SteadyOp, Shapely
    <3>4. o.kind = "zone" /\ o.phase \in {"read", "flushed"} => o.today <= clock' + o.key
      BY <2>2, <3>2 DEF SteadyOp, Shapely
    <3>5. o.phase = "flushed" =>
              /\ Accounts(events \cup o.rows, o.after,
                          IF o.kind = "submit" THEN committed + 1 ELSE committed,
                          clock' + (IF o.kind = "zone" THEN o.key ELSE zone))
              /\ o.kind = "submit" => o.after.last_active = o.today
      <4>1. SUFFICES ASSUME o.phase = "flushed"
                     PROVE  Accounts(events \cup o.rows, o.after,
                                     IF o.kind = "submit" THEN committed + 1 ELSE committed,
                                     clock' + (IF o.kind = "zone" THEN o.key ELSE zone))
        BY <3>2 DEF SteadyOp
      <4>2. PICK z : z = IF o.kind = "zone" THEN o.key ELSE zone
        OBVIOUS
      <4>3. z \in Int /\ o.after.last_active \in Int
        BY <2>2, <3>2, <4>2 DEF Shapely, WholeRow
      <4>4. Accounts(events \cup o.rows, o.after,
                     IF o.kind = "submit" THEN committed + 1 ELSE committed, clock + z)
        BY <3>2, <4>1, <4>2 DEF SteadyOp
      <4>5. QED
        BY <2>4, <4>2, <4>3, <4>4
    <3>6. /\ o.phase \in {"read", "flushed"} => o.seen = row
          /\ o.kind = "zone" /\ o.phase = "read" => o.after = row /\ o.rows = {}
      BY <3>2 DEF SteadyOp
    <3>7. transaction'[p] = o
      BY <3>1
    <3>8. QED
      BY <3>3, <3>4, <3>5, <3>6, <3>7 DEF SteadyOp, Accounts, Chain, CoveredOnce, FollowsIn, S!Newest
  <2>6. Accounts(events, row, committed, clock + zone)'
    <3>1. Accounts(events, row, committed, clock' + zone)
      BY <2>2, <2>4 DEF WholeRow
    <3>2. QED
      BY <3>1 DEF Accounts, Chain, CoveredOnce, FollowsIn, S!Newest
  <2>7. QED
    BY <2>3, <2>5, <2>6
<1>5. QED
  BY <1>1, <1>2, <1>3, <1>4 DEF LedgerInv

LEMMA StoreKeeps ==
    ASSUME LedgerInv, NEW q \in Requests, S!Store(q)
    PROVE  LedgerInv'
<1>1. /\ transaction[q].phase = "committed"
      /\ transaction' = [transaction EXCEPT ![q].phase = "stored"]
      /\ UNCHANGED <<clock, zone, row, events, committed, next_id, crossed>>
  BY DEF S!Store, S!database
<1>2. SoundOp(transaction[q]) /\ DOMAIN transaction[q] = OpFields
  BY <1>1, InProgress
<1>3. transaction[q].kind = "repair"
  BY <1>1, <1>2 DEF SoundOp, Shapely
<1>4. PICK o : o = transaction'[q]
  OBVIOUS
<1>5. /\ DOMAIN transaction' = Requests
      /\ \A p \in Requests \ {q} : transaction'[p] = transaction[p]
      /\ o = [transaction[q] EXCEPT !.phase = "stored"]
  BY <1>1, <1>4 DEF LedgerInv, Shapes
<1>6. /\ DOMAIN o = OpFields /\ o.phase = "stored" /\ o.kind = "repair"
      /\ o.seen = transaction[q].seen /\ o.rows = transaction[q].rows
      /\ o.after = transaction[q].after
  BY <1>2, <1>3, <1>5 DEF OpFields
<1>7. ~S!InTransaction(o) /\ ~S!Exposed(o)
  BY <1>6 DEF S!InTransaction, S!Exposed
<1>8. SoundOp(o)'
  BY <1>1, <1>2, <1>6
     DEF SoundOp, Shapely, HaveIds, ItsRepair, WholeRow, S!Columns, S!InTransaction
<1>9. SteadyOp(o)
  BY <1>6 DEF SteadyOp
<1>10. EachHasItsRepair'
  <2>1. PICK k : KeysServed' \subseteq KeysServed \cup {k}
    <3>1. PICK k : k = transaction[q].key
      OBVIOUS
    <3>2. \A l \in Keys : l # k => cached'[l] = cached[l] \/ cached'[l] = None
      BY <3>1 DEF S!Store
    <3>3. QED
      BY <3>2 DEF KeysServed
  <2>2. ToBeStored' = ToBeStored \ {q} /\ q \in ToBeStored
    BY <1>1, <1>4, <1>5, <1>6 DEF ToBeStored
  <2>3. S!Repairs' = S!Repairs
    BY <1>1 DEF S!Repairs
  <2>4. /\ \A e, f \in S!Repairs : e.ref = f.ref => e = f
        /\ IsFiniteSet(KeysServed) /\ IsFiniteSet(ToBeStored) /\ IsFiniteSet(S!Repairs)
        /\ Cardinality(KeysServed) + Cardinality(ToBeStored) <= Cardinality(S!Repairs)
    BY DEF LedgerInv, EachHasItsRepair
  <2>5. /\ IsFiniteSet(ToBeStored')
        /\ Cardinality(ToBeStored') = Cardinality(ToBeStored) - 1
    BY <2>2, <2>4, FS_RemoveElement
  <2>6. /\ IsFiniteSet(KeysServed \cup {k})
        /\ \/ Cardinality(KeysServed \cup {k}) = Cardinality(KeysServed) + 1
           \/ Cardinality(KeysServed \cup {k}) = Cardinality(KeysServed)
    BY <2>4, FS_AddElement
  <2>7. IsFiniteSet(KeysServed') /\ Cardinality(KeysServed') <= Cardinality(KeysServed \cup {k})
    BY <2>1, <2>6, FS_Subset
  <2>8. /\ Cardinality(KeysServed) \in Nat /\ Cardinality(ToBeStored) \in Nat
        /\ Cardinality(S!Repairs) \in Nat /\ Cardinality(KeysServed') \in Nat
    BY <2>4, <2>7, FS_CardinalityType
  <2>9. Cardinality(KeysServed') + Cardinality(ToBeStored') <= Cardinality(S!Repairs)
    BY <2>4, <2>5, <2>6, <2>7, <2>8
  <2>10. QED
    BY <2>3, <2>4, <2>5, <2>7, <2>9 DEF EachHasItsRepair
<1>11. next_id' \in Nat /\ next_id <= next_id' /\ (crossed' <=> crossed)
  BY <1>1 DEF LedgerInv, Shapes
<1>12. QED
  BY <1>1, <1>4, <1>5, <1>7, <1>8, <1>9, <1>10, <1>11, OneMoves

\* Nobody else is in a transaction that the commit could disturb.
LEMMA CommitsAlone ==
    ASSUME LedgerInv, ~crossed, NEW q \in Requests, transaction[q].phase = "flushed",
           NEW p \in Requests \ {q}, S!Exposed(transaction[p])
    PROVE  /\ ~S!InTransaction(transaction[p]) /\ transaction[p].kind = "submit"
           /\ transaction[q].kind = "submit" /\ transaction[p].today = transaction[q].today
<1>1. S!InTransaction(transaction[q]) /\ S!Exposed(transaction[q])
  BY DEF S!InTransaction, S!Exposed
<1>2. S!Family(transaction[p], p) = S!Family(transaction[q], q)
  BY <1>1 DEF LedgerInv, Undisturbed, OneFamily
<1>3. /\ transaction[p].kind = transaction[q].kind
      /\ transaction[p].kind = "submit" => transaction[p].today = transaction[q].today
      /\ transaction[p].kind \notin {"submit", "repair"} => p = q
  BY <1>2 DEF S!Family
<1>4. ~S!InTransaction(transaction[p])
  BY <1>1, <1>3 DEF LedgerInv, Apart, SameLock
<1>5. QED
  BY <1>3, <1>4 DEF S!Exposed

LEMMA CommitCounts ==
    ASSUME LedgerInv, NEW q \in Requests, S!Commit(q)
    PROVE  EachHasItsRepair'
<1>1. PICK o : o = transaction[q]
  OBVIOUS
<1>2. /\ o.phase = "flushed" /\ events' = events \cup o.rows /\ cached' = cached
      /\ transaction' = IF o.kind = "repair" THEN [transaction EXCEPT ![q].phase = "committed"]
                                             ELSE [transaction EXCEPT ![q] = S!Idle]
  BY <1>1 DEF S!Commit, S!redis
<1>3. SoundOp(o) /\ DOMAIN o = OpFields
  BY <1>1, <1>2, InProgress
<1>4. /\ \A e, f \in S!Repairs : e.ref = f.ref => e = f
      /\ IsFiniteSet(KeysServed) /\ IsFiniteSet(ToBeStored) /\ IsFiniteSet(S!Repairs)
      /\ Cardinality(KeysServed) + Cardinality(ToBeStored) <= Cardinality(S!Repairs)
  BY DEF LedgerInv, EachHasItsRepair
<1>5. KeysServed' = KeysServed
  BY <1>2 DEF KeysServed
<1>6. DOMAIN transaction = Requests
  BY DEF LedgerInv, Shapes
<1>7. CASE o.kind = "repair"
  <2>1. PICK r \in o.rows : o.rows = {r} /\ r.event = "repaired" /\ r.ref = o.found
    BY <1>2, <1>3, <1>7 DEF SoundOp, ItsRepair
  <2>2. o.found # 0 /\ \A e \in events : e.event = "repaired" => e.ref # o.found
    BY <1>2, <1>3, <1>7 DEF SoundOp, ItsRepair, S!InTransaction
  <2>3. S!Repairs' = S!Repairs \cup {r} /\ r \notin S!Repairs
    BY <1>2, <2>1, <2>2 DEF S!Repairs
  <2>4. \A e \in S!Repairs : e.ref # r.ref
    BY <2>1, <2>2 DEF S!Repairs
  <2>5. /\ IsFiniteSet(S!Repairs') /\ Cardinality(S!Repairs') = Cardinality(S!Repairs) + 1
    BY <1>4, <2>3, FS_AddElement
  <2>6. \A p \in Requests : transaction'[p].phase =
            IF p = q THEN "committed" ELSE transaction[p].phase
    <3>1. transaction'[q] = [o EXCEPT !.phase = "committed"]
      BY <1>1, <1>2, <1>6, <1>7
    <3>2. transaction'[q].phase = "committed"
      BY <1>3, <3>1 DEF OpFields
    <3>3. QED
      BY <1>2, <1>6, <1>7, <3>2
  <2>7. ToBeStored' = ToBeStored \cup {q} /\ q \notin ToBeStored
    BY <1>1, <1>2, <2>6 DEF ToBeStored
  <2>8. IsFiniteSet(ToBeStored') /\ Cardinality(ToBeStored') = Cardinality(ToBeStored) + 1
    BY <1>4, <2>7, FS_AddElement
  <2>9. /\ Cardinality(KeysServed) \in Nat /\ Cardinality(ToBeStored) \in Nat
        /\ Cardinality(S!Repairs) \in Nat
    BY <1>4, FS_CardinalityType
  <2>10. Cardinality(KeysServed') + Cardinality(ToBeStored') <= Cardinality(S!Repairs')
    BY <1>4, <1>5, <2>5, <2>8, <2>9
  <2>11. \A e, f \in S!Repairs' : e.ref = f.ref => e = f
    BY <1>4, <2>3, <2>4
  <2>12. QED
    BY <1>4, <1>5, <2>5, <2>8, <2>10, <2>11 DEF EachHasItsRepair
<1>8. CASE o.kind # "repair"
  <2>1. S!Repairs' = S!Repairs
    BY <1>2, <1>3, <1>8 DEF S!Repairs, SoundOp, ItsRepair
  <2>2. ToBeStored' = ToBeStored
    BY <1>1, <1>2, <1>6, <1>8, IdleIsOut DEF ToBeStored
  <2>3. QED
    BY <1>4, <1>5, <2>1, <2>2 DEF EachHasItsRepair
<1>9. QED
  BY <1>7, <1>8

LEMMA CommitKeepsLedger ==
    ASSUME LedgerInv, NEW q \in Requests, S!Commit(q)
    PROVE  LedgerInv'
<1>1. PICK o : o = transaction[q]
  OBVIOUS
<1>2. /\ o.phase = "flushed" /\ row' = S!Written(o) /\ events' = events \cup o.rows
      /\ zone' = (IF o.kind = "zone" THEN o.key ELSE zone)
      /\ committed' = (IF o.kind = "submit" THEN committed + 1 ELSE committed)
      /\ transaction' = IF o.kind = "repair" THEN [transaction EXCEPT ![q].phase = "committed"]
                                             ELSE [transaction EXCEPT ![q] = S!Idle]
      /\ UNCHANGED <<clock, next_id, crossed>>
  BY <1>1 DEF S!Commit
<1>3. SoundOp(o) /\ DOMAIN o = OpFields /\ (~crossed => SteadyOp(o))
  BY <1>1, <1>2, InProgress
<1>4. /\ clock \in Int /\ zone \in Int /\ WholeRow(row) /\ next_id \in Nat \ {0}
      /\ committed \in Nat /\ HaveIds(events) /\ DOMAIN transaction = Requests
  BY DEF LedgerInv, Shapes
<1>5. PICK n : n = transaction'[q]
  OBVIOUS
<1>6. /\ DOMAIN transaction' = Requests
      /\ \A p \in Requests : p # q => transaction'[p] = transaction[p]
      /\ n = IF o.kind = "repair" THEN [o EXCEPT !.phase = "committed"] ELSE S!Idle
  BY <1>1, <1>2, <1>4, <1>5
<1>7. \/ n = S!Idle
      \/ /\ DOMAIN n = OpFields /\ n.phase = "committed" /\ n.kind = "repair"
         /\ n.seen = o.seen /\ n.rows = o.rows /\ n.after = o.after
  BY <1>3, <1>6 DEF OpFields
<1>8. ~S!InTransaction(n) /\ ~S!Exposed(n)
  BY <1>7, IdleIsOut DEF S!InTransaction, S!Exposed
<1>9. /\ DOMAIN row' = S!Columns
      /\ row'.last_active \in Int
      /\ o.seen = row => /\ row'.streak = o.after.streak /\ row'.attempts = o.after.attempts
                         /\ row'.last_active = o.after.last_active
  BY <1>2, <1>3, <1>4 DEF S!Written, S!Columns, SoundOp, Shapely, WholeRow
<1>10. Shapes'
  <2>1. HaveIds(events')
    BY <1>2, <1>3, <1>4 DEF HaveIds, SoundOp
  <2>2. zone' \in Int /\ committed' \in Nat
    BY <1>2, <1>3, <1>4 DEF SoundOp, Shapely
  <2>3. QED
    BY <1>2, <1>4, <1>6, <1>9, <2>1, <2>2 DEF Shapes, WholeRow, S!Columns, HaveIds
<1>11. Apart'
  <2>1. ASSUME NEW p \in Requests, NEW r \in Requests,
               S!InTransaction(transaction'[p]), S!InTransaction(transaction'[r]),
               SameLock(transaction'[p], transaction'[r])
        PROVE  p = r
    <3>1. p # q /\ r # q
      BY <1>5, <1>8, <2>1
    <3>2. QED
      BY <1>6, <2>1, <3>1 DEF LedgerInv, Apart
  <2>2. QED
    BY <2>1 DEF Apart, S!InTransaction, SameLock
<1>12. EachHasItsRepair'
  BY CommitCounts
<1>13. ASSUME NEW p \in Requests, S!Active(p)' PROVE SoundOp(transaction[p])'
  <2>1. CASE p = q
    <3>1. n # S!Idle
      BY <1>5, <1>13, <2>1 DEF S!Active
    <3>2. SoundOp(n)'
      BY <1>2, <1>3, <1>7, <3>1
         DEF SoundOp, Shapely, HaveIds, ItsRepair, WholeRow, S!Columns, S!InTransaction
    <3>3. QED
      BY <1>5, <2>1, <3>2 DEF SoundOp, Shapely, HaveIds, ItsRepair, WholeRow, S!Columns,
                              S!InTransaction
  <2>2. CASE p # q
    <3>1. PICK b : b = transaction[p]
      OBVIOUS
    <3>2. SoundOp(b) /\ transaction'[p] = b
      BY <1>6, <1>13, <2>2, <3>1 DEF LedgerInv, S!Active
    <3>3. ASSUME b.kind = "repair", S!InTransaction(b), NEW e \in o.rows, e.event = "repaired"
          PROVE  e.ref # b.found
      <4>1. o.kind # "repair"
        BY <1>1, <1>2, <2>2, <3>1, <3>3 DEF LedgerInv, Apart, SameLock, S!InTransaction
      <4>2. e.ref = 0 /\ b.found # 0
        BY <1>3, <3>2, <3>3, <4>1 DEF SoundOp, ItsRepair
      <4>3. QED
        BY <4>2
    <3>4. ItsRepair(b)'
      BY <1>2, <3>2, <3>3 DEF SoundOp, ItsRepair, S!InTransaction
    <3>5. SoundOp(b)'
      BY <1>2, <3>2, <3>4 DEF SoundOp, Shapely, HaveIds, WholeRow, S!Columns
    <3>6. QED
      BY <3>2, <3>5 DEF SoundOp, Shapely, HaveIds, ItsRepair, WholeRow, S!Columns,
                        S!InTransaction
  <2>3. QED
    BY <2>1, <2>2
<1>14. Undisturbed'
  <2>1. SUFFICES ASSUME ~crossed'
                 PROVE  /\ OneFamily'
                        /\ \A p \in Requests : S!Active(p)' => SteadyOp(transaction[p])'
                        /\ Accounts(events, row, committed, clock + zone)'
    BY DEF Undisturbed
  <2>2. ~crossed /\ OneFamily /\ SteadyOp(o)
    BY <1>2, <1>3, <2>1 DEF LedgerInv, Undisturbed
  <2>3. OneFamily'
    <3>1. ASSUME NEW p \in Requests, NEW r \in Requests, S!Exposed(transaction'[p]),
                 S!Exposed(transaction'[r])
          PROVE  S!Family(transaction'[p], p) = S!Family(transaction'[r], r)
      <4>1. p # q /\ r # q
        BY <1>5, <1>8, <3>1
      <4>2. QED
        BY <1>6, <2>2, <3>1, <4>1 DEF OneFamily
    <3>2. QED
      BY <3>1 DEF OneFamily, S!Exposed, S!InTransaction, S!Family
  <2>4. /\ row'.streak = o.after.streak /\ row'.attempts = o.after.attempts
        /\ row'.last_active = o.after.last_active
        /\ o.kind = "submit" => row'.last_active = o.today
    BY <1>2, <1>9, <2>2 DEF SteadyOp
  <2>5. Accounts(events, row, committed, clock + zone)'
    <3>1. Accounts(events \cup o.rows, o.after,
                   IF o.kind = "submit" THEN committed + 1 ELSE committed,
                   clock + (IF o.kind = "zone" THEN o.key ELSE zone))
      BY <1>2, <2>2 DEF SteadyOp
    <3>2. Accounts(events', row', committed', clock' + zone')
      BY <1>2, <2>4, <3>1 DEF Accounts
    <3>3. QED
      BY <3>2 DEF Accounts, Chain, CoveredOnce, FollowsIn, S!Newest
  <2>6. ASSUME NEW p \in Requests, S!Active(p)' PROVE SteadyOp(transaction[p])'
    <3>1. CASE p = q
      <4>1. n.phase = "committed" /\ n.kind = "repair" /\ transaction'[p] = n
        BY <1>5, <1>7, <2>6, <3>1 DEF S!Active
      <4>2. QED
        BY <4>1 DEF SteadyOp
    <3>2. CASE p # q
      <4>1. PICK b : b = transaction[p]
        OBVIOUS
      <4>2. SoundOp(b) /\ SteadyOp(b) /\ transaction'[p] = b
        BY <1>6, <2>2, <2>6, <3>2, <4>1 DEF LedgerInv, Undisturbed, S!Active
      <4>3. ~S!InTransaction(b)
        BY <1>1, <1>2, <2>2, <3>2, <4>1, CommitsAlone DEF S!Exposed
      <4>4. b.phase \notin {"read", "flushed"}
        BY <4>3 DEF S!InTransaction
      <4>5. ASSUME b.kind = "submit" PROVE row'.last_active <= b.today /\ b.today <= clock' + zone'
        <5>1. b.phase = "start" /\ b.today \in Int
          BY <4>2, <4>4, <4>5 DEF SoundOp, Shapely
        <5>2. S!Exposed(b)
          BY <4>5, <5>1 DEF S!Exposed
        <5>3. o.kind = "submit" /\ b.today = o.today
          BY <1>1, <1>2, <2>2, <3>2, <4>1, <5>2, CommitsAlone
        <5>4. b.today <= clock + zone /\ zone' = zone
          BY <1>2, <4>2, <4>5, <5>3 DEF SteadyOp
        <5>5. QED
          BY <1>2, <2>4, <5>1, <5>3, <5>4
      <4>6. QED
        BY <4>2, <4>4, <4>5 DEF SteadyOp
    <3>3. QED
      BY <3>1, <3>2
  <2>7. QED
    BY <2>3, <2>5, <2>6
<1>15. QED
  BY <1>10, <1>11, <1>12, <1>13, <1>14 DEF LedgerInv

LEMMA LedgerInitially == S!Init => LedgerInv
<1> SUFFICES ASSUME S!Init PROVE LedgerInv
  OBVIOUS
<1>1. PICK r, s :
          /\ r = [S!Row("extended", 0, 1, 0, 0, 0) EXCEPT !.id = 1]
          /\ s = [S!Row("reset", 1, 1, 3, 0, 3) EXCEPT !.id = 2]
  OBVIOUS
<1>2. /\ r.id = 1 /\ r.event = "extended" /\ r.to_value = 1 /\ r.ref = 0
      /\ s.id = 2 /\ s.event = "reset" /\ s.from_value = 1 /\ s.to_value = 1 /\ s.ref = 0
  BY <1>1 DEF S!Row
<1>3. /\ events = {r, s} /\ next_id = 3 /\ clock = 3 /\ zone = 0 /\ committed = 0
      /\ row = [streak |-> 1, last_active |-> 3, freezes |-> 1, attempts |-> 2]
      /\ transaction = [q \in Requests |-> S!Idle] /\ cached = [k \in Keys |-> None]
      /\ crossed = FALSE
  BY <1>1 DEF S!Init
<1>4. Shapes
  <2>1. HaveIds(events)
    BY <1>2, <1>3 DEF HaveIds
  <2>2. WholeRow(row)
    BY <1>3 DEF WholeRow, S!Columns
  <2>3. QED
    BY <1>3, <2>1, <2>2 DEF Shapes
<1>5. \A q \in Requests : transaction[q] = S!Idle
  BY <1>3
<1>6. Apart /\ OneFamily
  BY <1>5, IdleIsOut DEF Apart, OneFamily
<1>7. EachHasItsRepair
  <2>1. S!Repairs = {}
    BY <1>2, <1>3 DEF S!Repairs
  <2>2. KeysServed = {} /\ ToBeStored = {}
    BY <1>3, <1>5, IdleIsOut DEF KeysServed, ToBeStored
  <2>3. IsFiniteSet({}) /\ Cardinality({}) = 0
    BY FS_EmptySet
  <2>4. QED
    BY <2>1, <2>2, <2>3 DEF EachHasItsRepair
<1>8. Accounts(events, row, committed, clock + zone)
  <2>1. Chain(events, row.streak)
    BY <1>2, <1>3 DEF Chain, FollowsIn, S!Newest
  <2>2. CoveredOnce(events)
    BY <1>2, <1>3 DEF CoveredOnce
  <2>3. QED
    BY <1>3, <2>1, <2>2 DEF Accounts
<1>9. QED
  BY <1>4, <1>5, <1>6, <1>7, <1>8 DEF LedgerInv, Undisturbed, S!Active

\* Steps that leave database and operations as they are.
LEMMA ElsewhereKeeps ==
    ASSUME LedgerInv,
           \/ \E q \in Requests, k \in Keys : S!AskAgain(q, k)
           \/ \E k \in Keys : S!ReservationExpires(k)
           \/ S!NextDay
           \/ UNCHANGED S!vars
    PROVE  LedgerInv'
<1>1. UNCHANGED <<zone, row, events, next_id, transaction, committed, cached, crossed>>
  BY DEF S!AskAgain, S!ReservationExpires, S!NextDay, S!vars, S!database, S!redis
<1>2. clock' = clock \/ clock' = clock + 1
  BY DEF S!AskAgain, S!ReservationExpires, S!NextDay, S!vars
<1>3. clock \in Int
  BY DEF LedgerInv, Shapes
<1>4. clock' \in Int /\ clock <= clock'
  BY <1>2, <1>3
<1>5. QED
  BY <1>1, <1>4, TimePasses

LEMMA LedgerIsInductive == LedgerInv /\ [S!Next]_S!vars => LedgerInv'
<1> SUFFICES ASSUME LedgerInv, [S!Next]_S!vars PROVE LedgerInv'
  OBVIOUS
<1>1. ASSUME NEW q \in Requests, S!Step(q) PROVE LedgerInv'
  <2>1. CASE S!StartSubmit(q)
    BY <2>1, StartSubmitKeeps
  <2>2. CASE S!ReadForSubmit(q)
    BY <2>2, ReadForSubmitKeeps
  <2>3. CASE S!FlushSubmit(q)
    BY <2>3, FlushSubmitKeeps
  <2>4. CASE \E z \in Zones : S!StartZone(q, z)
    BY <2>4, StartZoneKeeps
  <2>5. CASE S!ReadForZone(q)
    BY <2>5, ReadForZoneKeeps
  <2>6. CASE S!FlushZone(q)
    BY <2>6, FlushZoneKeeps
  <2>7. CASE \E d \in FillDates : S!Fill(q, d)
    BY <2>7, FillKeeps
  <2>8. CASE \E k \in Keys : S!Ask(q, k)
    BY <2>8, AskKeepsLedger
  <2>9. CASE \E k \in Keys : S!AskAgain(q, k)
    BY <2>9, ElsewhereKeeps
  <2>10. CASE S!Reserve(q) \/ S!WaitTimesOut(q)
    BY <2>10, WaitingKeeps
  <2>11. CASE S!Find(q)
    BY <2>11, FindKeeps
  <2>12. CASE S!ReadForRepair(q)
    BY <2>12, ReadForRepairKeeps
  <2>13. CASE S!FlushRepair(q)
    BY <2>13, FlushRepairKeeps
  <2>14. CASE S!Store(q)
    BY <2>14, StoreKeeps
  <2>15. CASE S!Commit(q)
    BY <2>15, CommitKeepsLedger
  <2>16. CASE \/ S!SubmitFails(q) \/ S!WaitEnds(q) \/ S!FindNothing(q) \/ S!NothingToGain(q)
              \/ S!Release(q) \/ S!Die(q)
    BY <2>16, EndingKeeps
  <2>17. QED
    BY <1>1, <2>1, <2>2, <2>3, <2>4, <2>5, <2>6, <2>7, <2>8, <2>9, <2>10, <2>11, <2>12, <2>13,
       <2>14, <2>15, <2>16 DEF S!Step
<1>2. CASE \/ \E k \in Keys : S!ReservationExpires(k)
           \/ S!NextDay
           \/ UNCHANGED S!vars
  BY <1>2, ElsewhereKeeps
<1>3. QED
  BY <1>1, <1>2 DEF S!Next

(* A reset is repaired once, and no two keys are told of one repair; and as   *)
(* long as no two transactions under different locks have overlapped, any     *)
(* number of submissions of a day and of repairs, whoever waits, dies or asks *)
(* again, leaves the ledger a chain that ends with the streak, every          *)
(* submission counted and no day covered twice: the advisory locks of         *)
(* attempts/service.py and streak/router.py serialize what they are held for. *)
THEOREM LocksSerialize == S!Spec => []LocksProtect
<1>1. S!Init => LedgerInv
  BY LedgerInitially
<1>2. LedgerInv /\ [S!Next]_S!vars => LedgerInv'
  BY LedgerIsInductive
<1>3. LedgerInv => LocksProtect
  BY LedgerInvProtects
<1>4. QED
  BY <1>1, <1>2, <1>3, PTL DEF S!Spec

-----------------------------------------------------------------------------
(* The shapes of the parts.                                                *)

\* RefreshTokens: a family is named by its first token, and what a tab shows.
Families == \A i \in 1 .. Len(tokens) : tokens[i].family \in 1 .. i

Shown == status \in [Tabs -> {"loading", "in", "out"}]

LEMMA FamiliesStay ==
    ASSUME SignInTyping, Families, Len(tokens') = Len(tokens),
           \A i \in 1 .. Len(tokens) : tokens'[i].family = tokens[i].family
    PROVE  Families'
BY DEF SignInTyping, Families

LEMMA FamilyJoined ==
    ASSUME SignInTyping, Families, NEW f \in 1 .. (Len(tokens) + 1), NEW issued, issued.family = f,
           NEW before, DOMAIN before = 1 .. Len(tokens), before \in Seq(TokenRow),
           \A i \in 1 .. Len(tokens) : before[i].family = tokens[i].family,
           tokens' = Append(before, issued)
    PROVE  Families'
<1>1. Len(tokens) \in Nat /\ Len(before) = Len(tokens)
  BY DEF SignInTyping
<1>2. Len(tokens') = Len(tokens) + 1
  BY <1>1
<1>3. ASSUME NEW i \in 1 .. Len(tokens') PROVE tokens'[i].family \in 1 .. i
  <2>1. CASE i = Len(tokens) + 1
    BY <1>1, <2>1
  <2>2. CASE i # Len(tokens) + 1
    <3>1. i \in 1 .. Len(tokens)
      BY <1>1, <1>2, <2>2
    <3>2. tokens'[i] = before[i]
      BY <1>1, <3>1
    <3>3. QED
      BY <3>1, <3>2 DEF Families
  <2>3. QED
    BY <2>1, <2>2
<1>4. QED
  BY <1>3 DEF Families

LEMMA SignInShapes ==
    SignInInv /\ Families /\ Shown /\ [R!Next]_R!vars => Families' /\ Shown'
<1> SUFFICES ASSUME SignInInv, Families, Shown, [R!Next]_R!vars PROVE Families' /\ Shown'
  OBVIOUS
<1>1. /\ SignInTyping /\ tokens \in Seq(TokenRow) /\ DOMAIN tokens = 1 .. Len(tokens)
      /\ Len(tokens) \in Nat /\ reqs \in Seq(RequestRow)
  BY DEF SignInInv, SignInTyping
<1>2. ASSUME tokens' = tokens PROVE Families'
  BY <1>1, <1>2, FamiliesStay
<1>3. ASSUME NEW t \in Tabs, R!Login(t) PROVE Families' /\ Shown'
  <2>1. PICK issued : issued = R!Token(0, Len(tokens) + 1, t, Len(tokens))
    OBVIOUS
  <2>2. issued.family = Len(tokens) + 1 /\ tokens' = Append(tokens, issued)
    BY <1>3, <2>1 DEF R!Login, R!Token
  <2>3. Families'
    BY <1>1, <2>2, FamilyJoined
  <2>4. QED
    BY <1>3, <2>3 DEF R!Login, Shown
<1>4. ASSUME NEW t \in Tabs, R!Refresh(t) \/ R!Logout(t) \/ R!Reload(t) PROVE Families' /\ Shown'
  BY <1>2, <1>4 DEF R!Refresh, R!Logout, R!Reload, R!client, Shown
<1>5. ASSUME NEW t \in Tabs, R!Lose(t) PROVE Families' /\ Shown'
  <2>1. Families'
    <3>1. CASE tokens' = tokens
      BY <1>2, <3>1
    <3>2. CASE tokens' = [tokens EXCEPT ![reqs[flight[t]].child].lost = TRUE]
      <4>1. Len(tokens') = Len(tokens)
        BY <1>1, <3>2
      <4>2. \A i \in 1 .. Len(tokens) : tokens'[i].family = tokens[i].family
        BY <1>1, <3>2 DEF TokenRow
      <4>3. QED
        BY <1>1, <4>1, <4>2, FamiliesStay
    <3>3. QED
      BY <1>5, <3>1, <3>2 DEF R!Lose
  <2>2. QED
    BY <1>5, <2>1 DEF R!Lose, R!Failed, Shown
<1>6. ASSUME NEW r \in DOMAIN reqs, R!Read(r) PROVE Families' /\ Shown'
  BY <1>2, <1>6 DEF R!Read, R!client, Shown
<1>7. ASSUME NEW r \in DOMAIN reqs, R!Rotate(r) PROVE Families' /\ Shown'
  <2>1. r \in 1 .. Len(reqs) /\ reqs[r] \in RequestRow
    BY <1>1
  <2>2. PICK p \in 1 .. Len(tokens) : p = reqs[r].token
    BY <1>1, <1>7, <2>1 DEF R!Rotate, SignInInv, Knowledge, RequestRow
  <2>3. PICK issued : issued = [R!Token(p, tokens[p].family, reqs[r].tab, reqs[r].read)
                              EXCEPT !.lost = flight[reqs[r].tab] # r]
    OBVIOUS
  <2>4. PICK before : before = [tokens EXCEPT ![p].rotated = TRUE]
    OBVIOUS
  <2>5. tokens' = Append(before, issued)
    BY <1>7, <2>2, <2>3, <2>4 DEF R!Rotate
  <2>6. issued.family = tokens[p].family /\ tokens[p].family \in 1 .. (Len(tokens) + 1)
    BY <1>1, <2>2, <2>3 DEF R!Token, Families
  <2>7. /\ before \in Seq(TokenRow) /\ DOMAIN before = 1 .. Len(tokens)
        /\ \A i \in 1 .. Len(tokens) : before[i].family = tokens[i].family
    <3>1. PICK entry : entry = [tokens[p] EXCEPT !.rotated = TRUE]
      OBVIOUS
    <3>2. tokens[p] \in TokenRow
      BY <1>1, <2>2
    <3>3. entry \in TokenRow /\ entry.family = tokens[p].family
      BY <3>1, <3>2 DEF TokenRow
    <3>4. before = [tokens EXCEPT ![p] = entry]
      BY <2>4, <3>1
    <3>5. /\ before \in Seq(TokenRow) /\ Len(before) = Len(tokens)
          /\ \A j \in 1 .. Len(tokens) : before[j] = IF j = p THEN entry ELSE tokens[j]
      BY <1>1, <3>3, <3>4, ExceptSeq
    <3>6. QED
      BY <1>1, <3>3, <3>5
  <2>8. Families'
    BY <1>1, <2>5, <2>6, <2>7, FamilyJoined
  <2>9. QED
    BY <1>7, <2>8 DEF R!Rotate, R!client, Shown
<1>8. ASSUME NEW r \in DOMAIN reqs, R!Revoke(r) PROVE Families' /\ Shown'
  <2>1. PICK family : tokens' = [j \in 1 .. Len(tokens) |->
            IF reqs[r].token # 0 /\ tokens[j].family = family
            THEN [tokens[j] EXCEPT !.revoked = TRUE] ELSE tokens[j]]
    BY <1>1, <1>8 DEF R!Revoke
  <2>2. Len(tokens') = Len(tokens)
    BY <1>1, <2>1
  <2>3. \A i \in 1 .. Len(tokens) : tokens'[i].family = tokens[i].family
    BY <1>1, <2>1 DEF TokenRow
  <2>4. QED
    BY <1>1, <1>8, <2>2, <2>3, FamiliesStay DEF R!Revoke, R!client, Shown
<1>9. ASSUME NEW r \in DOMAIN reqs, R!RefreshAnswered(r) \/ R!LogoutAnswered(r)
      PROVE  Families' /\ Shown'
  <2>1. reqs[r] \in RequestRow
    BY <1>1
  <2>2. Shown'
    BY <1>9, <2>1 DEF R!RefreshAnswered, R!LogoutAnswered, R!Failed, Shown, RequestRow
  <2>3. QED
    BY <1>2, <1>9, <2>2 DEF R!RefreshAnswered, R!LogoutAnswered
<1>10. ASSUME NEW i \in DOMAIN tokens, R!TokenExpires(i) PROVE Families' /\ Shown'
  <2>1. tokens' = [tokens EXCEPT ![i].expired = TRUE]
    BY <1>10 DEF R!TokenExpires
  <2>2. Len(tokens') = Len(tokens)
    BY <1>1, <2>1
  <2>3. \A j \in 1 .. Len(tokens) : tokens'[j].family = tokens[j].family
    BY <1>1, <2>1 DEF TokenRow
  <2>4. QED
    BY <1>1, <1>10, <2>2, <2>3, FamiliesStay DEF R!TokenExpires, R!client, Shown
<1>11. CASE R!SetBeta \/ UNCHANGED R!vars
  BY <1>2, <1>11 DEF R!SetBeta, R!client, R!vars, Shown
<1>12. QED
  BY <1>3, <1>4, <1>5, <1>6, <1>7, <1>8, <1>9, <1>10, <1>11 DEF R!Next

\* Every token descends from its family's first, every request carries what
\* there is.
THEOREM SignInIsTyped == R!Spec => []R!TypeOK
<1>1. R!Init => Families /\ Shown
  <2> SUFFICES ASSUME R!Init PROVE Families /\ Shown
    OBVIOUS
  <2>1. Len(tokens) = 0
    BY DEF R!Init
  <2>2. QED
    BY <2>1 DEF R!Init, Families, Shown
<1>2. SignInInv /\ Families /\ Shown => R!TypeOK
  <2> SUFFICES ASSUME SignInInv, Families, Shown PROVE R!TypeOK
    OBVIOUS
  <2>1. /\ tokens \in Seq(TokenRow) /\ DOMAIN tokens = 1 .. Len(tokens) /\ Len(tokens) \in Nat
        /\ reqs \in Seq(RequestRow) /\ DOMAIN reqs = 1 .. Len(reqs) /\ Len(reqs) \in Nat
    BY DEF SignInInv, SignInTyping
  <2>2. \A t \in Tabs : flight[t] \in 0 .. Len(reqs)
    BY <2>1 DEF SignInInv, Flights
  <2>3. \A r \in 1 .. Len(reqs) : reqs[r].child \in 0 .. Len(tokens)
    <3>1. \A r \in 1 .. Len(reqs) : reqs[r] \in RequestRow
      BY <2>1
    <3>2. QED
      BY <2>1, <3>1 DEF SignInInv, Knowledge, RequestRow
  <2>4. \A i \in 1 .. Len(tokens) : tokens[i].parent \in 0 .. i - 1 /\ tokens[i].family \in 1 .. i
    BY <2>1 DEF SignInInv, Descent, Families
  <2>5. QED
    BY <2>1, <2>2, <2>3, <2>4 DEF R!TypeOK, SignInInv, SignInTyping, Shown
<1>3. QED
  BY <1>1, <1>2, SignInStarts, SignInIsInductive, SignInShapes, PTL DEF R!Spec
-----------------------------------------------------------------------------
\* EmailVerification: the links that a request holds are there.
Mailed ==
    /\ cooling \subseteq Addresses
    /\ \A o \in Requests : op[o] # V!Idle =>
           op[o].snap \subseteq DOMAIN links /\ op[o].link \in DOMAIN links \cup {0}

LEMMA OneHolds ==
    ASSUME Mailed, Grown, cooling' \subseteq Addresses, NEW o \in Requests,
           \A p \in Requests \ {o} : op'[p] = op[p],
           op'[o] # V!Idle =>
               op'[o].snap \subseteq DOMAIN links /\ op'[o].link \in DOMAIN links \cup {0}
    PROVE  Mailed'
BY DEF Mailed, Grown, V!Idle

LEMMA NobodyHolds ==
    ASSUME Mailed, Grown, cooling' \subseteq Addresses, op' = op
    PROVE  Mailed'
BY DEF Mailed, Grown, V!Idle

LEMMA BeginHolds ==
    ASSUME AddressInv, Mailed, UNCHANGED links, cooling' \subseteq Addresses,
           NEW o \in Requests, NEW kind, NEW u, NEW a, NEW i \in DOMAIN links \cup {0},
           V!Begin(o, kind, u, a, i)
    PROVE  Mailed'
<1>1. PICK h : h = [kind |-> kind, user |-> u, address |-> a, link |-> i,
                    phase |-> IF kind = "verify" THEN "found" ELSE "loaded",
                    seen |-> account[u], snap |-> {}]
  OBVIOUS
<1>2. h.snap = {} /\ h.link = i
  BY <1>1
<1>3. op' = [op EXCEPT ![o] = h]
  BY <1>1 DEF V!Begin
<1>4. op'[o] = h /\ \A p \in Requests \ {o} : op'[p] = op[p]
  BY <1>3 DEF AddressInv, AddressTyping
<1>5. QED
  BY <1>2, <1>4, Ungrown, OneHolds DEF AddressInv

LEMMA MailedStays == AddressInv /\ Mailed /\ [V!Next]_V!vars => Mailed'
<1> SUFFICES ASSUME AddressInv, Mailed, [V!Next]_V!vars PROVE Mailed'
  OBVIOUS
<1>1. AddressTyping /\ cooling \subseteq Addresses
  BY DEF AddressInv, Mailed
<1>2. ASSUME NEW o \in Requests, NEW u \in Users,
             (\E a \in Addresses : V!RequestEmail(o, u, a)) \/ V!ResendVerification(o, u)
                 \/ V!DeleteEmail(o, u)
      PROVE  Mailed'
  <2>1. account[u].pending \in MaybeAddress
    BY DEF AddressInv, AddressTyping, Account
  <2>2. cooling' \subseteq Addresses
    BY <1>1, <1>2, <2>1
       DEF V!RequestEmail, V!ResendVerification, V!DeleteEmail, V!Claim, MaybeAddress
  <2>3. QED
    BY <1>2, <2>2, BeginHolds DEF V!RequestEmail, V!ResendVerification, V!DeleteEmail
<1>3. ASSUME NEW o \in Requests, NEW i \in DOMAIN links, V!VerifyEmail(o, i) PROVE Mailed'
  BY <1>1, <1>3, BeginHolds DEF V!VerifyEmail
<1>4. ASSUME NEW o \in Requests, V!LoadUser(o) \/ V!Scan(o) \/ V!Stamp(o) PROVE Mailed'
  <2>1. op[o] \in Operation
    BY <1>4 DEF V!LoadUser, V!Scan, V!Stamp, AddressInv, AddressTyping, V!Idle
  <2>2. op[o].snap \subseteq DOMAIN links /\ op[o].link \in DOMAIN links \cup {0}
    BY <1>4 DEF V!LoadUser, V!Scan, V!Stamp, Mailed, V!Idle
  <2>3. /\ \A p \in Requests \ {o} : op'[p] = op[p]
        /\ op'[o].link = op[o].link /\ op'[o].snap \subseteq DOMAIN links
    <3>1. CASE V!Scan(o)
      BY <2>1, <3>1 DEF V!Scan, AddressInv, AddressTyping, Operation, V!OutstandingOf
    <3>2. CASE V!Stamp(o)
      BY <2>1, <2>2, <3>2 DEF V!Stamp, AddressInv, AddressTyping, Operation
    <3>3. CASE V!LoadUser(o)
      BY <2>1, <2>2, <3>3 DEF V!LoadUser, AddressInv, AddressTyping, Operation
    <3>4. QED
      BY <1>4, <3>1, <3>2, <3>3
  <2>4. Grown /\ cooling' = cooling
    BY <1>4, Ungrown DEF V!LoadUser, V!Scan, V!Stamp, AddressInv
  <2>5. QED
    BY <1>1, <2>2, <2>3, <2>4, OneHolds
<1>5. ASSUME NEW o \in Requests, V!Flush(o) PROVE Mailed'
  <2>1. op[o] \in Operation
    BY <1>5 DEF V!Flush, AddressInv, AddressTyping, V!Idle
  <2>2. op[o].snap \subseteq DOMAIN links /\ op[o].link \in DOMAIN links \cup {0}
    BY <1>5 DEF V!Flush, Mailed, V!Idle
  <2>3. /\ \A p \in Requests \ {o} : op'[p] = op[p]
        /\ op'[o] = V!Idle \/ (op'[o].link = op[o].link /\ op'[o].snap = op[o].snap)
    <3>1. CASE V!Advance(o, "flushed")
      BY <2>1, <3>1 DEF V!Advance, AddressInv, AddressTyping, Operation
    <3>2. CASE V!End(o)
      BY <3>2 DEF V!End, AddressInv, AddressTyping
    <3>3. QED
      BY <1>5, <3>1, <3>2 DEF V!Flush
  <2>4. Grown /\ cooling' = cooling
    BY <1>5, Ungrown DEF V!Flush, AddressInv
  <2>5. QED
    BY <1>1, <2>2, <2>3, <2>4, OneHolds
<1>6. ASSUME NEW o \in Requests, V!Commit(o) \/ V!Fail(o) PROVE Mailed'
  <2>1. op'[o] = V!Idle /\ \A p \in Requests \ {o} : op'[p] = op[p]
    BY <1>6 DEF V!Commit, V!Fail, V!End, AddressInv, AddressTyping
  <2>2. Grown /\ cooling' = cooling
    BY <1>6, CommitGrows, Ungrown DEF V!Commit, V!Fail, AddressInv
  <2>3. QED
    BY <1>1, <2>1, <2>2, OneHolds
<1>7. ASSUME NEW i \in DOMAIN links, V!LinkExpires(i) PROVE Mailed'
  <2>1. links' = [links EXCEPT ![i].expired = TRUE] /\ UNCHANGED <<cooling, op>>
    BY <1>7 DEF V!LinkExpires
  <2>2. DOMAIN links' = DOMAIN links
    BY <2>1
  <2>3. QED
    BY <1>1, <2>1, <2>2 DEF Mailed, V!Idle
<1>8. CASE (\E a \in Addresses : V!CoolOff(a)) \/ UNCHANGED V!vars
  BY <1>1, <1>8, Ungrown, NobodyHolds DEF V!CoolOff, V!vars
<1>9. QED
  BY <1>2, <1>3, <1>4, <1>5, <1>6, <1>7, <1>8 DEF V!Next

\* Accounts have addresses, requests links that exist.
THEOREM AddressIsTyped == V!Spec => []V!TypeOK
<1>1. V!Init => Mailed
  BY DEF V!Init, Mailed
<1>2. AddressInv /\ Mailed => V!TypeOK
  <2> SUFFICES ASSUME AddressInv, Mailed PROVE V!TypeOK
    OBVIOUS
  <2>1. DOMAIN links = 1 .. Len(links) /\ Len(links) \in Nat
    BY DEF AddressInv, AddressTyping
  <2>2. \A u \in Users : account[u].email \in MaybeAddress /\ account[u].pending \in MaybeAddress
    BY DEF AddressInv, AddressTyping, Account
  <2>3. QED
    BY <2>1, <2>2 DEF V!TypeOK, Mailed, MaybeAddress
<1>3. QED
  BY <1>1, <1>2, AddressInitially, AddressIsInductive, MailedStays, PTL DEF V!Spec

-----------------------------------------------------------------------------
\* GradingRetry: no more correct ones are counted than were judged.
Judged == {a \in Attempts : attempt[a].status \in G!Verdicts}

JudgedBy(j) == {a \in job[j].done : job[j].rows[a].status \in G!Verdicts}

AllJudged == Len(submitted) + Cardinality(Judged)

WithinJudged ==
    /\ submitted \in Seq(G!Verdicts)
    /\ stats.correct \in 0 .. AllJudged
    /\ submit # G!Idle => submit.base.correct \in 0 .. AllJudged
    /\ \A j \in Jobs : job[j] # G!Idle =>
           /\ job[j].base.correct \in 0 .. AllJudged
           /\ job[j].gain.correct \in Nat
           /\ job[j].gain.correct + (IF job[j].pc = "crediting" THEN 1 ELSE 0)
                  <= Cardinality(JudgedBy(j))
           /\ \A a \in job[j].done : job[j].rows[a].status # "pending" =>
                  job[j].rows[a].retries = 0
    /\ \A a \in Attempts : attempt[a].retries < MAX_RETRY_ATTEMPTS

LEMMA JudgedIsFinite ==
    ASSUME IsFiniteSet(Attempts), SettlingInv, WithinJudged
    PROVE  /\ IsFiniteSet(Judged) /\ AllJudged \in Nat /\ Len(submitted) \in Nat
           /\ Cardinality(Judged) \in Nat
           /\ \A j \in Jobs : job[j] # G!Idle =>
                  IsFiniteSet(JudgedBy(j)) /\ Cardinality(JudgedBy(j)) \in Nat
<1>1. IsFiniteSet(Judged) /\ Cardinality(Judged) \in Nat
  BY FS_Subset, FS_CardinalityType DEF Judged
<1>2. ASSUME NEW j \in Jobs, job[j] # G!Idle
      PROVE  IsFiniteSet(JudgedBy(j)) /\ Cardinality(JudgedBy(j)) \in Nat
  <2>1. job[j] \in Run
    BY <1>2 DEF SettlingInv, GradingTyping
  <2>2. JudgedBy(j) \subseteq Attempts
    BY <2>1 DEF JudgedBy, Run
  <2>3. QED
    BY <2>2, FS_Subset, FS_CardinalityType
<1>3. QED
  BY <1>1, <1>2 DEF AllJudged, WithinJudged

\* A step in which no run judges or counts anything.
LEMMA NothingCounted ==
    ASSUME WithinJudged, UNCHANGED <<attempt, submitted>>,
           stats' = stats,
           submit' # G!Idle => submit'.base.correct \in 0 .. AllJudged,
           \A j \in Jobs : job'[j] # G!Idle => job'[j] = job[j]
    PROVE  WithinJudged'
BY DEF WithinJudged, AllJudged, Judged, JudgedBy

\* What the grader's answer leaves of a run.
LEMMA GradedIs ==
    ASSUME SettlingInv, NEW j \in Jobs, NEW a \in Attempts,
           NEW outcome \in G!Verdicts \cup {"pending", "failed"}, NEW retries \in Nat,
           G!Graded(j, a, outcome, retries)
    PROVE  /\ job[j] \in Run /\ a \in job[j].todo /\ a \notin job[j].done
           /\ job'[j].done = job[j].done \cup {a} /\ job'[j].gain = job[j].gain
           /\ job'[j].base \in {stats, job[j].base}
           /\ job'[j].pc = IF outcome \in G!Verdicts THEN "crediting" ELSE "grading"
           /\ job'[j].rows[a].status = outcome /\ job'[j].rows[a].retries = retries
           /\ \A b \in Attempts \ {a} : job'[j].rows[b] = job[j].rows[b]
           /\ \A k \in Jobs \ {j} : job'[k] = job[k]
<1>1. job[j] \in Run /\ a \in job[j].todo
  BY DEF G!Graded, SettlingInv, GradingTyping, G!Idle
<1>2. a \notin job[j].done
  BY <1>1, IdleIsNoRun DEF SettlingInv, FreshRows
<1>3. job[j].rows \in [Attempts -> AttemptRow]
  BY <1>1 DEF Run
<1>4. PICK new : new = [status |-> outcome, retries |-> retries,
                        runs |-> job[j].rows[a].runs + 1]
  OBVIOUS
<1>5. PICK newRows : newRows = [job[j].rows EXCEPT ![a] = new]
  OBVIOUS
<1>6. newRows[a] = new /\ \A b \in Attempts \ {a} : newRows[b] = job[j].rows[b]
  BY <1>3, <1>5
<1>7. PICK pc, base :
          /\ pc = (IF outcome \in G!Verdicts THEN "crediting" ELSE "grading")
          /\ base = (IF outcome \in G!Verdicts /\ job[j].gain = G!Zero
                     THEN stats ELSE job[j].base)
  OBVIOUS
<1>8. job'[j] = [pc |-> pc, todo |-> job[j].todo \ {a}, done |-> job[j].done \cup {a},
                 rows |-> newRows, base |-> base, gain |-> job[j].gain, verdict |-> outcome]
  <2>1. job' = [job EXCEPT ![j].todo = @ \ {a}, ![j].done = @ \cup {a}, ![j].rows[a] = new,
                           ![j].pc = pc, ![j].verdict = outcome, ![j].base = base]
    BY <1>4, <1>7 DEF G!Graded
  <2>2. QED
    BY <1>1, <1>5, <2>1 DEF SettlingInv, GradingTyping, Run
<1>9. \A k \in Jobs \ {j} : job'[k] = job[k]
  BY DEF G!Graded, SettlingInv, GradingTyping
<1>10. new.status = outcome /\ new.retries = retries
  BY <1>4
<1>11. QED
  BY <1>1, <1>2, <1>6, <1>7, <1>8, <1>9, <1>10

LEMMA GradedCounts ==
    ASSUME IsFiniteSet(Attempts), SettlingInv, WithinJudged, NEW j \in Jobs, NEW a \in Attempts,
           NEW outcome \in G!Verdicts \cup {"pending", "failed"}, NEW retries \in Nat,
           G!Graded(j, a, outcome, retries), UNCHANGED <<attempt, stats, submit, G!log>>,
           outcome # "pending" => retries = 0
    PROVE  WithinJudged'
<1>1. /\ job[j] \in Run /\ job[j] # G!Idle /\ a \notin job[j].done
      /\ job'[j].done = job[j].done \cup {a} /\ job'[j].gain = job[j].gain
      /\ job'[j].base \in {stats, job[j].base}
      /\ job'[j].pc = IF outcome \in G!Verdicts THEN "crediting" ELSE "grading"
      /\ job'[j].rows[a].status = outcome /\ job'[j].rows[a].retries = retries
      /\ \A b \in Attempts \ {a} : job'[j].rows[b] = job[j].rows[b]
      /\ \A k \in Jobs \ {j} : job'[k] = job[k]
  BY GradedIs, IdleIsNoRun
<1>2. job[j].done \subseteq Attempts \ {a} /\ job[j].pc = "grading"
  BY <1>1 DEF Run, G!Graded
<1>3. /\ IsFiniteSet(JudgedBy(j)) /\ Cardinality(JudgedBy(j)) \in Nat
  BY <1>1, JudgedIsFinite
<1>4. JudgedBy(j)' = JudgedBy(j) \cup (IF outcome \in G!Verdicts THEN {a} ELSE {})
  <2>1. \A b \in job[j].done : job'[j].rows[b] = job[j].rows[b]
    BY <1>1, <1>2
  <2>2. QED
    BY <1>1, <2>1 DEF JudgedBy
<1>5. Cardinality(JudgedBy(j)') = Cardinality(JudgedBy(j))
                                      + (IF outcome \in G!Verdicts THEN 1 ELSE 0)
  <2>1. a \notin JudgedBy(j)
    BY <1>1 DEF JudgedBy
  <2>2. CASE outcome \in G!Verdicts
    <3>1. Cardinality(JudgedBy(j) \cup {a}) = Cardinality(JudgedBy(j)) + 1
      BY <1>3, <2>1, FS_AddElement
    <3>2. QED
      BY <1>4, <2>2, <3>1
  <2>3. CASE outcome \notin G!Verdicts
    <3>1. JudgedBy(j)' = JudgedBy(j)
      BY <1>4, <2>3
    <3>2. QED
      BY <1>3, <2>3, <3>1
  <2>4. QED
    BY <2>2, <2>3
<1>6. job[j].gain.correct \in Nat /\ job[j].gain.correct <= Cardinality(JudgedBy(j))
  BY <1>1, <1>2, <1>3 DEF WithinJudged
<1>7. UNCHANGED <<attempt, stats, submit, submitted>>
  BY DEF G!log
<1>8. AllJudged' = AllJudged /\ \A k \in Jobs \ {j} : JudgedBy(k)' = JudgedBy(k)
  BY <1>1, <1>7 DEF AllJudged, Judged, JudgedBy
<1>9. \A b \in job'[j].done : job'[j].rows[b].status # "pending" => job'[j].rows[b].retries = 0
  BY <1>1, <1>2 DEF WithinJudged
<1>10. /\ job'[j].base.correct \in 0 .. AllJudged
       /\ job'[j].gain.correct + (IF job'[j].pc = "crediting" THEN 1 ELSE 0)
              <= Cardinality(JudgedBy(j)')
  <2>1. job'[j].base.correct \in 0 .. AllJudged
    BY <1>1 DEF WithinJudged
  <2>2. QED
    BY <1>1, <1>3, <1>5, <1>6, <2>1
<1>11. QED
  BY <1>1, <1>6, <1>7, <1>8, <1>9, <1>10 DEF WithinJudged

\* The commit: what the run has judged is judged, and it counted no more.
LEMMA FinishCounts ==
    ASSUME IsFiniteSet(Attempts), MAX_RETRY_ATTEMPTS \in Nat \ {0}, \A j, k \in Jobs : j = k,
           SettlingInv, WithinJudged, NEW j \in Jobs, G!Finish(j)
    PROVE  WithinJudged'
<1>1. job[j] \in Run /\ job[j] # G!Idle /\ job[j].pc = "grading"
  BY IdleIsNoRun DEF G!Finish, SettlingInv, GradingTyping, G!Idle
<1>2. /\ job[j].done \in SUBSET Attempts
      /\ \A a \in Attempts : job[j].rows[a] \in AttemptRow
      /\ job[j].gain \in Counts /\ job[j].base \in Counts
  BY <1>1 DEF Run
<1>3. \A a \in job[j].done :
          /\ attempt[a].status = "pending"
          /\ attempt'[a].status = job[j].rows[a].status
          /\ attempt'[a].retries = job[j].rows[a].retries
  <2>1. \A a \in job[j].done : attempt[a].status = "pending"
    BY <1>1 DEF SettlingInv, FreshRows
  <2>2. \A a \in job[j].done :
            attempt'[a] = IF job[j].rows[a].status = "pending"
                          THEN [job[j].rows[a] EXCEPT !.status = "pending"] ELSE job[j].rows[a]
    BY <1>1, <1>2, <2>1 DEF G!Finish, G!Rows
  <2>3. \A r \in AttemptRow : r.status = "pending" => [r EXCEPT !.status = "pending"] = r
    BY DEF AttemptRow
  <2>4. QED
    BY <1>2, <2>1, <2>2, <2>3
<1>4. \A a \in Attempts \ job[j].done : attempt'[a] = attempt[a]
  BY DEF G!Finish, G!Rows
<1>5. /\ Judged' = Judged \cup JudgedBy(j) /\ Judged \cap JudgedBy(j) = {}
  BY <1>2, <1>3, <1>4 DEF Judged, JudgedBy, G!Verdicts
<1>6. /\ IsFiniteSet(Judged) /\ IsFiniteSet(JudgedBy(j)) /\ AllJudged \in Nat
      /\ Cardinality(Judged) \in Nat /\ Cardinality(JudgedBy(j)) \in Nat
      /\ Len(submitted) \in Nat
  BY <1>1, JudgedIsFinite
<1>7. Cardinality(Judged') = Cardinality(Judged) + Cardinality(JudgedBy(j))
  <2>1. Cardinality(Judged \cap JudgedBy(j)) = 0
    BY <1>5, FS_EmptySet
  <2>2. Cardinality(Judged \cup JudgedBy(j)) =
            Cardinality(Judged) + Cardinality(JudgedBy(j)) - Cardinality(Judged \cap JudgedBy(j))
    BY <1>6, FS_Union
  <2>3. Cardinality(Judged \cup JudgedBy(j)) = Cardinality(Judged) + Cardinality(JudgedBy(j))
    BY <1>6, <2>1, <2>2
  <2>4. QED
    BY <1>5, <2>3
<1>8. submitted' = submitted /\ submit' = submit
  BY DEF G!Finish
<1>9. AllJudged' = AllJudged + Cardinality(JudgedBy(j))
  BY <1>6, <1>7, <1>8 DEF AllJudged
<1>10. stats'.correct \in 0 .. AllJudged'
  <2>1. /\ stats.correct \in 0 .. AllJudged /\ job[j].base.correct \in 0 .. AllJudged
        /\ job[j].gain.correct \in Nat /\ job[j].gain.correct <= Cardinality(JudgedBy(j))
    BY <1>1, <1>6 DEF WithinJudged
  <2>2. \/ stats'.correct = stats.correct
        \/ stats'.correct = job[j].base.correct + job[j].gain.correct
    <3>1. CASE job[j].gain = G!Zero
      BY <3>1 DEF G!Finish
    <3>2. CASE job[j].gain # G!Zero
      BY <3>2 DEF G!Finish, G!Store
    <3>3. QED
      BY <3>1, <3>2
  <2>3. PICK n \in Nat, m \in Nat : n = AllJudged /\ m = Cardinality(JudgedBy(j))
    BY <1>6
  <2>4. AllJudged' = n + m
    BY <1>9, <2>3
  <2>5. stats'.correct \in 0 .. (n + m)
    BY <2>1, <2>2, <2>3
  <2>6. QED
    BY <2>4, <2>5
<1>11. \A k \in Jobs : job'[k] = G!Idle
  BY DEF G!Finish, SettlingInv, GradingTyping
<1>12. submit' # G!Idle => submit'.base.correct \in 0 .. AllJudged'
  BY <1>6, <1>8, <1>9 DEF WithinJudged
<1>13. ASSUME NEW a \in Attempts PROVE attempt'[a].retries < MAX_RETRY_ATTEMPTS
  <2>1. CASE a \in job[j].done
    <3>1. CASE job[j].rows[a].status = "pending"
      BY <1>1, <1>3, <2>1, <3>1 DEF SettlingInv, LookedAt
    <3>2. CASE job[j].rows[a].status # "pending"
      BY <1>1, <1>3, <2>1, <3>2 DEF WithinJudged
    <3>3. QED
      BY <3>1, <3>2
  <2>2. CASE a \notin job[j].done
    BY <1>4, <2>2 DEF WithinJudged
  <2>3. QED
    BY <2>1, <2>2
<1>14. submitted \in Seq(G!Verdicts)
  BY DEF WithinJudged
<1>15. QED
  BY <1>8, <1>10, <1>11, <1>12, <1>13, <1>14 DEF WithinJudged

LEMMA SubmitCounts ==
    ASSUME IsFiniteSet(Attempts), SettlingInv, WithinJudged, G!SubmitCommits
    PROVE  WithinJudged'
<1>1. submit \in Submission /\ submit # G!Idle
  BY IdleIsNoRun DEF G!SubmitCommits, SettlingInv, GradingTyping, G!Idle
<1>2. submit.base \in Counts /\ submit.verdict \in G!Verdicts
  BY <1>1 DEF Submission
<1>3. submitted \in Seq(G!Verdicts) /\ submitted' = Append(submitted, submit.verdict)
  BY DEF WithinJudged, G!SubmitCommits
<1>4. submitted' \in Seq(G!Verdicts) /\ Len(submitted') = Len(submitted) + 1
  BY <1>2, <1>3
<1>5. AllJudged \in Nat /\ Len(submitted) \in Nat /\ Cardinality(Judged) \in Nat
  BY JudgedIsFinite
<1>6. UNCHANGED <<attempt, job>> /\ submit' = G!Idle
  BY DEF G!SubmitCommits
<1>7. AllJudged' = AllJudged + 1 /\ \A j \in Jobs : JudgedBy(j)' = JudgedBy(j)
  BY <1>4, <1>5, <1>6 DEF AllJudged, Judged, JudgedBy
<1>8. stats'.correct \in 0 .. AllJudged'
  <2>1. stats.correct \in 0 .. AllJudged /\ submit.base.correct \in 0 .. AllJudged
    BY <1>1 DEF WithinJudged
  <2>2. PICK g : g = G!Plus(G!Zero, submit.verdict)
    OBVIOUS
  <2>3. g.correct \in {0, 1}
    BY <2>2 DEF G!Plus, G!Zero
  <2>4. stats'.correct = IF g.correct = 0 THEN stats.correct ELSE submit.base.correct + g.correct
    BY <2>2 DEF G!SubmitCommits, G!Store
  <2>5. QED
    BY <1>5, <1>7, <2>1, <2>3, <2>4
<1>9. \A n : n \in 0 .. AllJudged => n \in 0 .. AllJudged'
  BY <1>5, <1>7
<1>10. QED
  BY <1>4, <1>6, <1>7, <1>8, <1>9 DEF WithinJudged

LEMMA WithinJudgedStays ==
    ASSUME IsFiniteSet(Attempts), MAX_RETRY_ATTEMPTS \in Nat \ {0}, \A j, k \in Jobs : j = k,
           SettlingInv, WithinJudged, [G!Next]_G!vars
    PROVE  WithinJudged'
<1>1. ASSUME NEW j \in Jobs, G!Start(j) PROVE WithinJudged'
  <2>1. PICK new : new = [pc |-> "grading", todo |-> {a \in Attempts : attempt[a].status = "pending"},
                          done |-> {}, rows |-> attempt, base |-> G!Zero, gain |-> G!Zero,
                          verdict |-> "none"]
    OBVIOUS
  <2>2. /\ new.done = {} /\ new.base.correct = 0 /\ new.gain.correct = 0 /\ new.pc = "grading"
    BY <2>1 DEF G!Zero
  <2>3. job'[j] = new /\ \A k \in Jobs \ {j} : job'[k] = job[k]
    BY <1>1, <2>1 DEF G!Start, SettlingInv, GradingTyping
  <2>4. UNCHANGED <<attempt, stats, submit, submitted>>
    BY <1>1 DEF G!Start, G!log
  <2>5. AllJudged \in Nat /\ AllJudged' = AllJudged
    BY <2>4, JudgedIsFinite DEF AllJudged, Judged
  <2>6. JudgedBy(j)' = {} /\ \A k \in Jobs \ {j} : JudgedBy(k)' = JudgedBy(k)
    BY <2>2, <2>3 DEF JudgedBy
  <2>7. Cardinality(JudgedBy(j)') = 0
    BY <2>6, FS_EmptySet
  <2>8. /\ job'[j].base.correct \in 0 .. AllJudged' /\ job'[j].gain.correct \in Nat
        /\ job'[j].gain.correct + (IF job'[j].pc = "crediting" THEN 1 ELSE 0)
               <= Cardinality(JudgedBy(j)')
        /\ job'[j].done = {}
    BY <2>2, <2>3, <2>5, <2>7
  <2>9. QED
    BY <2>3, <2>4, <2>5, <2>6, <2>8 DEF WithinJudged
<1>2. ASSUME NEW j \in Jobs, G!Credit(j) PROVE WithinJudged'
  <2>1. job[j] \in Run /\ job[j] # G!Idle /\ job[j].gain \in Counts
    BY <1>2, IdleIsNoRun DEF G!Credit, SettlingInv, GradingTyping, G!Idle, Run
  <2>2. PICK g : g = G!Plus(job[j].gain, job[j].verdict)
    OBVIOUS
  <2>3. job' = [job EXCEPT ![j].pc = "grading", ![j].gain = g]
    BY <1>2, <2>2 DEF G!Credit
  <2>4. /\ job'[j].done = job[j].done /\ job'[j].rows = job[j].rows
        /\ job'[j].base = job[j].base /\ job'[j].pc = "grading" /\ job'[j].gain = g
        /\ \A k \in Jobs \ {j} : job'[k] = job[k]
    BY <2>1, <2>3 DEF SettlingInv, GradingTyping, Run
  <2>5. UNCHANGED <<attempt, stats, submit, submitted>>
    BY <1>2 DEF G!Credit, G!log
  <2>6. AllJudged' = AllJudged /\ \A k \in Jobs : JudgedBy(k)' = JudgedBy(k)
    BY <2>4, <2>5 DEF AllJudged, Judged, JudgedBy
  <2>7. /\ job[j].gain.correct \in Nat
        /\ job[j].gain.correct + 1 <= Cardinality(JudgedBy(j))
        /\ Cardinality(JudgedBy(j)) \in Nat
    BY <1>2, <2>1, JudgedIsFinite DEF WithinJudged, G!Credit
  <2>8. g.correct \in Nat /\ g.correct <= Cardinality(JudgedBy(j))
    <3>1. g.correct \in {job[j].gain.correct, job[j].gain.correct + 1}
      BY <2>2, <2>7 DEF G!Plus
    <3>2. QED
      BY <2>7, <3>1
  <2>9. /\ job'[j].base.correct \in 0 .. AllJudged'
        /\ job'[j].gain.correct + (IF job'[j].pc = "crediting" THEN 1 ELSE 0)
               <= Cardinality(JudgedBy(j)')
        /\ \A a \in job'[j].done : job'[j].rows[a].status # "pending" => job'[j].rows[a].retries = 0
    BY <2>1, <2>4, <2>6, <2>8 DEF WithinJudged
  <2>10. QED
    BY <2>4, <2>5, <2>6, <2>8, <2>9 DEF WithinJudged
<1>3. ASSUME NEW j \in Jobs, G!Commit(j) PROVE WithinJudged'
  BY <1>3, FinishCounts DEF G!Commit
<1>4. ASSUME NEW j \in Jobs, G!Abort(j) PROVE WithinJudged'
  <2>1. job'[j] = G!Idle /\ \A k \in Jobs \ {j} : job'[k] = job[k]
    BY <1>4 DEF G!Abort, SettlingInv, GradingTyping
  <2>2. QED
    BY <1>4, <2>1, NothingCounted DEF G!Abort, WithinJudged
<1>5. ASSUME NEW j \in Jobs, NEW a \in Attempts, G!GraderTimesOut(j, a) PROVE WithinJudged'
  <2>1. job[j] \in Run /\ job[j].rows[a].retries \in Nat
    BY <1>5 DEF G!GraderTimesOut, SettlingInv, GradingTyping, Run, AttemptRow
  <2>2. PICK n \in Nat : n = job[j].rows[a].retries + 1
    BY <2>1
  <2>3. /\ UNCHANGED <<attempt, stats, submit, G!log>>
        /\ G!Graded(j, a, "pending", n) \/ G!Graded(j, a, "failed", 0)
    BY <1>5, <2>2 DEF G!GraderTimesOut
  <2>4. QED
    BY <2>3, GradedCounts
<1>6. ASSUME NEW j \in Jobs, NEW a \in Attempts,
             G!GraderTalksNonsense(j, a) \/ \E v \in G!Verdicts : G!GraderJudges(j, a, v)
      PROVE  WithinJudged'
  BY <1>6, GradedCounts DEF G!GraderTalksNonsense, G!GraderJudges, G!Verdicts
<1>7. ASSUME NEW v \in G!Verdicts, G!SubmitReads(v) PROVE WithinJudged'
  <2>1. submit'.base = stats
    BY <1>7 DEF G!SubmitReads
  <2>2. QED
    BY <1>7, <2>1, NothingCounted DEF G!SubmitReads, G!log, WithinJudged
<1>8. CASE G!SubmitWrites
  <2>1. submit \in Submission /\ submit # G!Idle
    BY <1>8, IdleIsNoRun DEF G!SubmitWrites, SettlingInv, GradingTyping, G!Idle
  <2>2. submit'.base = submit.base
    BY <1>8, <2>1 DEF G!SubmitWrites, Submission
  <2>3. QED
    BY <1>8, <2>1, <2>2, NothingCounted DEF G!SubmitWrites, G!log, WithinJudged
<1>9. CASE G!SubmitCommits
  BY <1>9, SubmitCounts
<1>10. CASE UNCHANGED G!vars
  BY <1>10, NothingCounted DEF G!vars, G!log, WithinJudged
<1>11. QED
  BY <1>1, <1>2, <1>3, <1>4, <1>5, <1>6, <1>7, <1>8, <1>9, <1>10 DEF G!Next

\* With one process running the job, total_correct is within what was judged,
\* and no retry count reaches the limit.
THEOREM GradingIsTyped ==
    ASSUME IsFiniteSet(Attempts), MAX_RETRY_ATTEMPTS \in Nat \ {0}, \A j, k \in Jobs : j = k
    PROVE  G!Spec => []G!TypeOK
<1>1. G!Init => WithinJudged
  <2> SUFFICES ASSUME G!Init PROVE WithinJudged
    OBVIOUS
  <2>1. Judged = {} /\ Len(submitted) = 0
    BY DEF G!Init, Judged, G!Verdicts
  <2>2. AllJudged = 0
    BY <2>1, FS_EmptySet DEF AllJudged
  <2>3. stats.correct = 0 /\ \A a \in Attempts : attempt[a].retries = 0
    BY DEF G!Init, G!Zero
  <2>4. QED
    BY <2>2, <2>3 DEF G!Init, WithinJudged
<1>2. ASSUME SettlingInv, WithinJudged PROVE G!TypeOK
  <2>1. Cardinality(Judged) <= Cardinality(Attempts) /\ Cardinality(Judged) \in Nat
        /\ Len(submitted) \in Nat /\ Cardinality(Attempts) \in Nat
    BY <1>2, JudgedIsFinite, FS_Subset, FS_CardinalityType DEF Judged
  <2>2. stats.correct \in 0 .. Len(submitted) + Cardinality(Attempts)
    BY <1>2, <2>1 DEF WithinJudged, AllJudged
  <2>3. \A a \in Attempts : attempt[a] \in AttemptRow /\ attempt[a].retries < MAX_RETRY_ATTEMPTS
    BY <1>2 DEF SettlingInv, GradingTyping, WithinJudged
  <2>4. \A a \in Attempts : /\ attempt[a].status \in G!Verdicts \cup {"pending", "failed"}
                            /\ attempt[a].retries \in 0 .. MAX_RETRY_ATTEMPTS - 1
    BY <2>3 DEF AttemptRow
  <2>5. G!Cardinality(Attempts) = Cardinality(Attempts)
    BY DEF G!Cardinality, Cardinality
  <2>6. QED
    BY <1>2, <2>2, <2>4, <2>5 DEF G!TypeOK, SettlingInv, FreshRows
<1>3. ASSUME SettlingInv, WithinJudged, [G!Next]_G!vars PROVE WithinJudged'
  BY <1>3, WithinJudgedStays
<1>4. G!Init => SettlingInv
  BY SettlingInitially
<1>5. SettlingInv /\ [G!Next]_G!vars => SettlingInv'
  BY SettlingIsInductive
<1>6. QED
  BY <1>1, <1>2, <1>3, <1>4, <1>5, PTL DEF G!Spec

-----------------------------------------------------------------------------
\* JobTrigger: a call takes a job off its list when it is done with it.
OnItsList ==
    \A t \in Triggers : call[t].phase \in {"running", "ended"} => call[t].job \in call[t].todo

LEMMA OnItsListStays ==
    ASSUME None \notin Triggerable, Guarded, OnItsList, [J!Next]_J!vars
    PROVE  OnItsList'
<1>1. call \in [Triggers -> Handling]
  BY DEF Guarded, Shape
<1>2. ASSUME NEW t \in Triggers, NEW names \in SUBSET Triggerable, J!Call(t, names)
      PROVE  OnItsList'
  BY <1>1, <1>2 DEF J!Call, OnItsList
<1>3. ASSUME NEW t \in Triggers, NEW j \in Triggerable, J!Claim(t, j) \/ J!ClaimFails(t, j)
      PROVE  OnItsList'
  <2>1. PICK b \in BOOLEAN : J!Takes(t, j) /\ J!RunJob(t, j, b)
    BY <1>3 DEF J!Claim, J!ClaimFails
  <2>2. \A s \in Triggers \ {t} : call'[s] = call[s]
    BY <1>1, <2>1 DEF J!RunJob
  <2>3. call'[t].job = j /\ call'[t].todo = call[t].todo
    BY <1>1, <2>1 DEF J!RunJob, Handling
  <2>4. QED
    BY <2>1, <2>2, <2>3 DEF J!Takes, OnItsList
<1>4. ASSUME NEW t \in Triggers, NEW j, J!NextJob(t, j) PROVE OnItsList'
  <2>1. call'[t].phase = "next" /\ \A s \in Triggers \ {t} : call'[s] = call[s]
    BY <1>1, <1>4 DEF J!NextJob, Handling
  <2>2. QED
    BY <2>1 DEF OnItsList
<1>5. ASSUME NEW t \in Triggers, J!JobEnds(t) PROVE OnItsList'
  <2>1. /\ call'[t].job = call[t].job /\ call'[t].todo = call[t].todo
        /\ \A s \in Triggers \ {t} : call'[s] = call[s]
    BY <1>1, <1>5 DEF J!JobEnds, Handling
  <2>2. QED
    BY <1>5, <2>1 DEF J!JobEnds, OnItsList
<1>6. ASSUME NEW t \in Triggers, J!Report(t) PROVE OnItsList'
  BY <1>1, <1>6 DEF J!Report, J!Idle, OnItsList
<1>7. CASE J!Stop
  BY <1>7 DEF J!Stop, J!Idle, OnItsList
<1>8. CASE UNCHANGED call
  BY <1>8 DEF OnItsList
<1>9. QED
  BY <1>2, <1>3, <1>4, <1>5, <1>6, <1>7, <1>8
     DEF J!Next, J!Skip, J!Release, J!ReleaseFails, J!LockExpires, J!Start, J!Tick, J!RunOnce,
         J!vars, J!process

\* A running job is one the call was asked for and has not ticked off.
THEOREM TriggerIsTyped ==
    ASSUME None \notin Triggerable
    PROVE  J!Spec => []J!TypeOK
<1>1. J!Init => OnItsList
  BY DEF J!Init, J!Idle, OnItsList
<1>2. ASSUME Guarded, OnItsList PROVE J!TypeOK
  BY <1>2 DEF J!TypeOK, J!Runs, Guarded, Shape, OnItsList
<1>3. ASSUME Guarded, OnItsList, [J!Next]_J!vars PROVE OnItsList'
  BY <1>3, OnItsListStays
<1>4. Guarded /\ [J!Next]_J!vars => Guarded'
  BY GuardedIsInductive
<1>5. QED
  BY <1>1, <1>2, <1>3, <1>4, GuardedInitially, PTL DEF J!Spec

-----------------------------------------------------------------------------
\* TokenBucket: the bucket is neither overdrawn nor overfull, and no time is
\* ahead of Redis.
Bucket ==
    /\ time \in Nat
    /\ \A c \in Callers : asked[c] # None => asked[c] \in 0 .. time
    /\ DOMAIN asked = Callers
    /\ bucket # None => /\ bucket.tokens \in 0 .. B!Full /\ bucket.ts \in 0 .. time

LEMMA FullBucket == B!Full \in Nat /\ WINDOW \in Nat /\ LIMIT \in Nat
<1>1. PICK l \in Nat, w \in Nat : l = LIMIT /\ w = WINDOW
  BY LimiterAssumption
<1>2. l * w \in Nat
  OBVIOUS
<1>3. QED
  BY <1>1, <1>2 DEF B!Full

LEMMA TokensAreIn ==
    ASSUME Bucket, NEW now \in Nat
    PROVE  B!Tokens(now) \in 0 .. B!Full
<1>1. PICK full \in Nat, l \in Nat : full = B!Full /\ l = LIMIT
  BY FullBucket
<1>2. CASE bucket = None
  BY <1>1, <1>2 DEF B!Tokens
<1>3. CASE bucket # None
  <2>1. PICK left \in Nat, ts \in Nat : left = bucket.tokens /\ ts = bucket.ts
    BY <1>1, <1>3 DEF Bucket
  <2>2. PICK gone \in Nat : gone = B!Max({0, now - ts})
    BY TheGreater
  <2>3. PICK gain \in Nat : gain = gone * l
    OBVIOUS
  <2>4. B!Min({full, left + gain}) = IF full <= left + gain THEN full ELSE left + gain
    BY TheLesser
  <2>5. B!Tokens(now) = B!Min({full, left + gain})
    BY <1>1, <1>3, <2>1, <2>2, <2>3 DEF B!Tokens, B!Refilled
  <2>6. QED
    BY <1>1, <2>4, <2>5
<1>4. QED
  BY <1>2, <1>3

LEMMA BucketStays == Bucket /\ [B!Next]_B!vars => Bucket'
<1> SUFFICES ASSUME Bucket, [B!Next]_B!vars PROVE Bucket'
  OBVIOUS
<1>1. None \notin Int
  BY LimiterAssumption
<1>2. ASSUME NEW c \in Callers, B!Ask(c) PROVE Bucket'
  BY <1>2 DEF B!Ask, Bucket
<1>3. ASSUME NEW c \in Callers, B!Run(c) PROVE Bucket'
  <2>1. PICK now \in Nat : now = asked[c] /\ now <= time
    BY <1>3 DEF B!Run, Bucket
  <2>2. B!Tokens(now) \in 0 .. B!Full
    BY <2>1, TokensAreIn
  <2>3. PICK found \in Nat, w \in Nat, full \in Nat :
            found = B!Tokens(now) /\ w = WINDOW /\ full = B!Full /\ found <= full
    BY <2>2, FullBucket
  <2>4. bucket' = [tokens |-> IF found >= w THEN found - w ELSE found, ts |-> now,
                   until |-> time + 2 * WINDOW]
    BY <1>3, <2>1, <2>3 DEF B!Run
  <2>5. bucket'.tokens \in 0 .. full /\ bucket'.ts = now
    BY <2>3, <2>4
  <2>6. asked' = [asked EXCEPT ![c] = None] /\ time' = time
    BY <1>3 DEF B!Run
  <2>7. QED
    BY <2>1, <2>3, <2>5, <2>6 DEF Bucket
<1>4. CASE B!Expires
  BY <1>4 DEF B!Expires, Bucket
<1>5. CASE B!Second
  <2>1. time' = time + 1 /\ UNCHANGED <<bucket, asked>>
    BY <1>5 DEF B!Second
  <2>2. \A n \in 0 .. time : n \in 0 .. time'
    BY <2>1 DEF Bucket
  <2>3. QED
    BY <2>1, <2>2 DEF Bucket
<1>6. CASE UNCHANGED B!vars
  BY <1>6 DEF B!vars, Bucket
<1>7. QED
  BY <1>2, <1>3, <1>4, <1>5, <1>6 DEF B!Next

\* The script never overdraws the bucket and never stores a time to come.
THEOREM BucketIsTyped == B!Spec => []B!TypeOK
<1>1. B!Init => Bucket
  BY DEF B!Init, Bucket
<1>2. Bucket => B!TypeOK
  BY DEF Bucket, B!TypeOK
<1>3. QED
  BY <1>1, <1>2, BucketStays, PTL DEF B!Spec

-----------------------------------------------------------------------------
\* StreakTransactions: the balance of freezes stays between zero and the most
\* one may have, in the row, in what is read and in what is to be written.
FullRow(s) ==
    WholeRow(s) /\ s.streak \in Nat /\ s.freezes \in 0 .. FREEZE_MAX /\ s.attempts \in Nat

AllCounted(rows) ==
    /\ IsFiniteSet(rows)
    /\ \A e \in rows : e.from_value \in Nat /\ e.to_value \in Nat /\ e.local_date \in Int

KnowsItsStreak(o) ==
    o.kind = "repair" /\ o.phase \in {"found", "read", "flushed", "committed", "stored"} =>
        o.today \in Nat

Valued(o) == FullRow(o.seen) /\ FullRow(o.after) /\ AllCounted(o.rows) /\ KnowsItsStreak(o)

Stored == cached \in [Keys -> Nat \cup {None}]

Values ==
    /\ FullRow(row) /\ AllCounted(events) /\ Stored
    /\ \A q \in Requests : S!Active(q) => Valued(transaction[q])

LEMMA TheLeast ==
    ASSUME NEW a \in Int, NEW b \in Int
    PROVE  S!Min({a, b}) <= a /\ S!Min({a, b}) <= b /\ S!Min({a, b}) \in Int
<1>1. PICK m : m = S!Min({a, b})
  OBVIOUS
<1>2. \E x \in {a, b} : \A y \in {a, b} : x =< y
  <2>1. CASE a <= b
    BY <2>1
  <2>2. CASE b <= a
    BY <2>2
  <2>3. QED
    BY <2>1, <2>2
<1>3. m \in {a, b} /\ \A y \in {a, b} : m =< y
  BY <1>1, <1>2 DEF S!Min
<1>4. QED
  BY <1>1, <1>3

\* A ledger that is not empty has a latest day.
LEMMA LatestDay ==
    ASSUME NEW ledger, IsFiniteSet(ledger), ledger # {}, \A e \in ledger : e.local_date \in Int
    PROVE  \E e \in ledger : \A f \in ledger : f.local_date <= e.local_date
<1> DEFINE later(e) == {g \in ledger : e.local_date < g.local_date}
           numbers == {Cardinality(later(e)) : e \in ledger}
<1>1. \A e \in ledger : IsFiniteSet(later(e)) /\ Cardinality(later(e)) \in Nat
  BY FS_Subset, FS_CardinalityType
<1>2. numbers \in SUBSET Nat /\ numbers # {}
  BY <1>1
<1>3. PICK m \in numbers : \A k \in numbers : m <= k
  BY <1>2, LeastNat
<1>4. PICK e \in ledger : m = Cardinality(later(e))
  OBVIOUS
<1>5. ASSUME NEW f \in ledger, e.local_date < f.local_date PROVE FALSE
  <2>1. later(f) \subseteq later(e) /\ f \in later(e) /\ f \notin later(f)
    <3>1. \A g \in ledger : f.local_date < g.local_date => e.local_date < g.local_date
      BY <1>5
    <3>2. QED
      BY <1>5, <3>1
  <2>2. /\ Cardinality(later(f)) <= Cardinality(later(e))
        /\ Cardinality(later(e)) = Cardinality(later(f)) => later(e) = later(f)
    BY <1>1, <2>1, FS_Subset
  <2>3. m <= Cardinality(later(f))
    BY <1>3
  <2> HIDE DEF later
  <2>4. QED
    BY <1>1, <1>4, <2>1, <2>2, <2>3
<1>6. QED
  BY <1>5

LEMMA RestoresAStreak ==
    ASSUME Values, NEW r \in S!Restorable
    PROVE  S!RestoresTo(r) \in Nat
<1> DEFINE run == {e \in events : S!IsTransition(e) /\ e.local_date >= r.local_date}
<1>1. r \in events /\ r.event = "reset"
  BY DEF S!Restorable, S!LastReset
<1>2. \A e \in events : e.from_value \in Nat /\ e.to_value \in Nat /\ e.local_date \in Int
  BY DEF Values, AllCounted
<1>3. IsFiniteSet(run)
  BY FS_Subset DEF Values, AllCounted
<1>4. r \in run
  BY <1>1, <1>2 DEF S!IsTransition
<1>5. \E e \in run : \A f \in run : f.local_date <= e.local_date
  BY <1>2, <1>3, <1>4, LatestDay
<1>6. PICK end : end = CHOOSE e \in run : \A f \in run : f.local_date <= e.local_date
  OBVIOUS
<1>7. end \in run
  BY <1>5, <1>6
<1>8. S!RestoresTo(r) = r.from_value + end.to_value
  BY <1>6 DEF S!RestoresTo
<1>9. QED
  BY <1>1, <1>2, <1>7, <1>8

LEMMA NumberedCounts ==
    ASSUME NEW rows, AllCounted(rows), \A r \in rows : DOMAIN r = RowFields
    PROVE  AllCounted(S!Numbered(rows))
<1> DEFINE N(r) == [r EXCEPT !.id = Place(rows, r)]
<1>1. S!Numbered(rows) = {N(r) : r \in rows}
  BY DEF S!Numbered, Place
<1>2. ASSUME NEW r \in rows
      PROVE  N(r).from_value \in Nat /\ N(r).to_value \in Nat /\ N(r).local_date \in Int
  BY DEF AllCounted, RowFields
<1> HIDE DEF N
<1>3. PICK f : f = [r \in rows |-> N(r)]
  OBVIOUS
<1>4. f \in Surjection(rows, S!Numbered(rows))
  BY <1>1, <1>3 DEF Surjection
<1>5. IsFiniteSet(S!Numbered(rows))
  BY <1>4, FS_Surjection DEF AllCounted
<1>6. QED
  BY <1>1, <1>2, <1>5 DEF AllCounted

LEMMA OneRowCounts ==
    ASSUME NEW r, r.from_value \in Nat, r.to_value \in Nat, r.local_date \in Int
    PROVE  AllCounted({r})
BY FS_Singleton DEF AllCounted

LEMMA NoRowsCount == AllCounted({})
BY FS_EmptySet DEF AllCounted

LEMMA MoreCount ==
    ASSUME NEW rows, NEW more, AllCounted(rows), AllCounted(more)
    PROVE  AllCounted(rows \cup more)
BY FS_Union DEF AllCounted

\* What a submission writes: never more freezes than one may have, nor fewer
\* than none.
LEMMA TransitionCounts ==
    ASSUME NEW s, FullRow(s), NEW today \in Int, NEW at
    PROVE  /\ FullRow(S!Transition(s, today, at).after)
           /\ AllCounted(S!Transition(s, today, at).rows)
           /\ \A r \in S!Transition(s, today, at).rows : DOMAIN r = RowFields
<1> DEFINE missed == S!MissedDates(s.last_active, today)
           uncovered == missed \ S!CoveredDates
           saved == missed # {} /\ S!Cardinality(uncovered) <= S!Min({s.freezes, FREEZE_MAX})
           extends == s.last_active = today - 1 \/ saved
           paid == IF saved THEN uncovered ELSE {}
           value == IF extends THEN s.streak + 1 ELSE 1
           balance == s.freezes - S!Cardinality(paid)
           earns == extends /\ S!EarnsFreeze(value, balance)
           earned == IF earns THEN {S!Row("adjusted", value, value, today, 0, at)} ELSE {}
           event == IF extends THEN "extended" ELSE "reset"
           counted == [s EXCEPT !.attempts = @ + 1]
           after == [counted EXCEPT !.streak = value, !.last_active = today,
                                    !.freezes = IF earns THEN balance + 1 ELSE balance]
           freezes == {S!Row("freeze_used", s.streak, s.streak, d, 0, at) : d \in paid}
<1>1. /\ s.last_active = today =>
             S!Transition(s, today, at) = [after |-> counted, rows |-> {}]
      /\ s.last_active # today =>
             /\ S!Transition(s, today, at).after = after
             /\ S!Transition(s, today, at).rows =
                    freezes \cup {S!Row(event, s.streak, value, today, 0, at)} \cup earned
  BY DEF S!Transition
<1>2. /\ DOMAIN s = S!Columns /\ s.last_active \in Int /\ s.streak \in Nat /\ s.attempts \in Nat
      /\ s.freezes \in Nat /\ s.freezes <= FREEZE_MAX /\ FREEZE_MAX \in Nat
  BY StreakAssumption DEF FullRow, WholeRow
<1>3. /\ DOMAIN counted = S!Columns /\ counted.attempts = s.attempts + 1
      /\ counted.streak = s.streak /\ counted.freezes = s.freezes
      /\ counted.last_active = s.last_active
  BY <1>2 DEF S!Columns
<1>4. value \in Nat
  BY <1>2
<1>5. IsFiniteSet(uncovered) /\ uncovered \subseteq Int /\ S!Cardinality(uncovered) \in Nat
  <2>1. IsFiniteSet(missed) /\ missed \subseteq Int
    <3>1. PICK a \in Int, b \in Int : a = s.last_active + 1 /\ b = today - 1
      BY <1>2
    <3>2. missed = a .. b
      BY <3>1 DEF S!MissedDates
    <3>3. IsFiniteSet(a .. b) /\ a .. b \subseteq Int
      BY FS_Interval
    <3>4. QED
      BY <3>2, <3>3
  <2>2. IsFiniteSet(uncovered) /\ uncovered \subseteq Int
    BY <2>1, FS_Subset
  <2>3. QED
    BY <2>2, FS_CardinalityType, StreakCount
<1>6. IsFiniteSet(paid) /\ paid \subseteq Int /\ balance \in 0 .. FREEZE_MAX
  <2>1. CASE saved
    <3>1. S!Cardinality(uncovered) <= s.freezes
      <4>1. S!Cardinality(uncovered) <= S!Min({s.freezes, FREEZE_MAX})
        BY <2>1
      <4>2. PICK m : m = S!Min({s.freezes, FREEZE_MAX})
        OBVIOUS
      <4>3. m <= s.freezes /\ m \in Int
        <5>1. PICK a \in Int, b \in Int : a = s.freezes /\ b = FREEZE_MAX
          BY <1>2
        <5>2. S!Min({a, b}) <= a /\ S!Min({a, b}) \in Int
          BY TheLeast
        <5>3. QED
          BY <4>2, <5>1, <5>2
      <4> HIDE DEF uncovered
      <4>4. S!Cardinality(uncovered) <= m
        BY <4>1, <4>2
      <4>5. QED
        BY <1>2, <1>5, <4>3, <4>4
    <3>2. paid = uncovered
      BY <2>1
    <3> HIDE DEF uncovered, paid, saved
    <3>3. QED
      BY <1>2, <1>5, <3>1, <3>2
  <2>2. CASE ~saved
    <3>1. paid = {}
      BY <2>2
    <3>2. IsFiniteSet({}) /\ S!Cardinality({}) = 0
      BY FS_EmptySet, StreakCount
    <3> HIDE DEF paid
    <3>3. QED
      BY <1>2, <3>1, <3>2
  <2>3. QED
    BY <2>1, <2>2
<1> HIDE DEF missed, uncovered, saved, extends, paid, value, balance, counted
<1>7. earns => balance < FREEZE_MAX
  BY DEF S!EarnsFreeze
<1>8. /\ DOMAIN after = S!Columns /\ after.streak = value /\ after.last_active = today
      /\ after.attempts = counted.attempts
      /\ after.freezes = IF earns THEN balance + 1 ELSE balance
  <2> HIDE DEF earns
  <2>1. QED
    BY <1>3 DEF S!Columns
<1>9. FullRow(after)
  <2> HIDE DEF earns, after
  <2>1. after.freezes \in 0 .. FREEZE_MAX
    BY <1>2, <1>6, <1>7, <1>8
  <2>2. QED
    BY <1>2, <1>3, <1>4, <1>8, <2>1 DEF FullRow, WholeRow
<1>10. FullRow(counted)
  BY <1>2, <1>3 DEF FullRow, WholeRow
<1> HIDE DEF earns, event, after
<1>11. AllCounted(freezes) /\ \A r \in freezes : DOMAIN r = RowFields
  <2> DEFINE F(d) == S!Row("freeze_used", s.streak, s.streak, d, 0, at)
  <2>1. \A d : /\ DOMAIN F(d) = RowFields /\ F(d).from_value = s.streak
               /\ F(d).to_value = s.streak /\ F(d).local_date = d
    BY DEF S!Row, RowFields
  <2> HIDE DEF F
  <2>2. freezes = {F(d) : d \in paid}
    BY DEF F
  <2>3. PICK f : f = [d \in paid |-> F(d)]
    OBVIOUS
  <2>4. f \in Surjection(paid, freezes)
    BY <2>2, <2>3 DEF Surjection
  <2>5. IsFiniteSet(freezes)
    BY <1>6, <2>4, FS_Surjection
  <2>6. QED
    BY <1>2, <1>6, <2>1, <2>2, <2>5 DEF AllCounted
<1>12. PICK t : t = S!Row(event, s.streak, value, today, 0, at)
  OBVIOUS
<1>13. PICK a : a = S!Row("adjusted", value, value, today, 0, at)
  OBVIOUS
<1>14. /\ DOMAIN t = RowFields /\ t.from_value = s.streak /\ t.to_value = value
       /\ t.local_date = today
       /\ DOMAIN a = RowFields /\ a.from_value = value /\ a.to_value = value
       /\ a.local_date = today
  BY <1>12, <1>13 DEF S!Row, RowFields
<1>15. AllCounted({t}) /\ AllCounted({a})
  BY <1>2, <1>4, <1>14, OneRowCounts
<1>16. (earned = {} \/ earned = {a}) /\ AllCounted(earned)
  BY <1>13, <1>15, NoRowsCount
<1> HIDE DEF freezes, earned
<1>17. AllCounted(freezes \cup {t} \cup earned)
  BY <1>11, <1>15, <1>16, MoreCount
<1>18. \A r \in freezes \cup {t} \cup earned : DOMAIN r = RowFields
  BY <1>11, <1>14, <1>16
<1>19. CASE s.last_active = today
  BY <1>1, <1>10, <1>19, NoRowsCount
<1>20. CASE s.last_active # today
  BY <1>1, <1>9, <1>12, <1>17, <1>18, <1>20
<1>21. QED
  BY <1>19, <1>20

\* One request goes on or ends.
LEMMA OneMovesOn ==
    ASSUME LedgerInv, Values, NEW q \in Requests, NEW o,
           transaction' = [transaction EXCEPT ![q] = o], o = S!Idle \/ Valued(o),
           FullRow(row)', AllCounted(events)', Stored'
    PROVE  Values'
<1>1. /\ transaction'[q] = o
      /\ \A p \in Requests \ {q} : transaction'[p] = transaction[p]
  BY DEF LedgerInv, Shapes
<1>2. ASSUME NEW p \in Requests, S!Active(p)' PROVE Valued(transaction[p])'
  <2>1. CASE p = q
    BY <1>1, <1>2, <2>1 DEF S!Active
  <2>2. CASE p # q
    <3>1. transaction'[p] = transaction[p] /\ Valued(transaction[p])
      BY <1>1, <1>2, <2>2 DEF S!Active, Values
    <3>2. QED
      BY <3>1
  <2>3. QED
    BY <2>1, <2>2
<1>3. QED
  BY <1>2 DEF Values

LEMMA OneIsValued ==
    ASSUME LedgerInv, Values, NEW q \in Requests, NEW o,
           transaction' = [transaction EXCEPT ![q] = o], o = S!Idle \/ Valued(o),
           UNCHANGED <<row, events, cached>>
    PROVE  Values'
<1>1. FullRow(row)' /\ AllCounted(events)' /\ Stored'
  BY DEF Values, FullRow, WholeRow, AllCounted, Stored
<1>2. QED
  BY <1>1, OneMovesOn

LEMMA NewOpIsValued ==
    ASSUME LedgerInv, Values, NEW kind, NEW at, NEW key, NEW today, NEW o,
           o = S!Op(kind, at, key, today), kind # "repair" \/ at = "asked"
    PROVE  Valued(o)
<1>1. /\ o.rows = {} /\ o.kind = kind /\ o.phase = at /\ o.seen = row /\ o.after = row
  BY NewOp
<1>2. QED
  BY <1>1, NoRowsCount DEF Values, Valued, KnowsItsStreak

\* Beginnings: what is read and what is to be written is the row.
LEMMA BeginIsValued ==
    ASSUME LedgerInv, Values, NEW q \in Requests,
           \/ S!StartSubmit(q) \/ \E z \in Zones : S!StartZone(q, z)
           \/ \E k \in Keys : S!Ask(q, k)
    PROVE  Values'
<1>1. UNCHANGED <<row, events, cached>>
  BY DEF S!StartSubmit, S!StartZone, S!Ask, S!database, S!redis
<1>2. PICK kind, at, key, o :
          /\ o = S!Op(kind, at, key, S!Today) /\ (kind # "repair" \/ at = "asked")
          /\ transaction' = [transaction EXCEPT ![q] = o]
  BY DEF S!StartSubmit, S!StartZone, S!Ask, S!Expose
<1>3. Valued(o)
  BY <1>2, NewOpIsValued
<1>4. QED
  BY <1>1, <1>2, <1>3, OneIsValued

\* What a request knows is what it knew, and its phase.
LEMMA PhaseIsValued ==
    ASSUME LedgerInv, Values, NEW q \in Requests, NEW o, S!Active(q),
           DOMAIN transaction[q] = OpFields, DOMAIN o = OpFields,
           o.after = transaction[q].after, o.rows = transaction[q].rows,
           FullRow(o.seen), KnowsItsStreak(o)
    PROVE  Valued(o)
BY DEF Values, Valued

LEMMA ReadIsValued ==
    ASSUME LedgerInv, Values, NEW q \in Requests,
           S!ReadForSubmit(q) \/ S!ReadForRepair(q) \/ S!ReadForZone(q)
    PROVE  Values'
<1>1. UNCHANGED <<row, events, cached>>
  BY DEF S!ReadForSubmit, S!ReadForRepair, S!ReadForZone, S!database, S!redis
<1>2. CASE S!ReadForSubmit(q) \/ S!ReadForRepair(q)
  <2>1. /\ transaction[q].kind = "submit" \/ transaction[q].phase = "found"
        /\ transaction[q].kind \in {"submit", "repair"}
        /\ transaction' = [transaction EXCEPT ![q].phase = "read", ![q].seen = row]
    BY <1>2 DEF S!ReadForSubmit, S!ReadForRepair
  <2>2. S!Active(q) /\ DOMAIN transaction[q] = OpFields
    BY <2>1, InProgress
  <2>3. PICK o : o = [transaction[q] EXCEPT !.phase = "read", !.seen = row]
    OBVIOUS
  <2>4. /\ DOMAIN o = OpFields /\ o.after = transaction[q].after /\ o.rows = transaction[q].rows
        /\ o.seen = row /\ o.kind = transaction[q].kind /\ o.today = transaction[q].today
    BY <2>2, <2>3 DEF OpFields
  <2>5. FullRow(o.seen) /\ KnowsItsStreak(o)
    BY <2>1, <2>2, <2>4 DEF Values, Valued, KnowsItsStreak
  <2>6. Valued(o)
    BY <2>2, <2>4, <2>5, PhaseIsValued
  <2>7. transaction' = [transaction EXCEPT ![q] = o]
    BY <2>1, <2>3 DEF LedgerInv, Shapes
  <2>8. QED
    BY <1>1, <2>6, <2>7, OneIsValued
<1>3. CASE S!ReadForZone(q)
  <2>1. PICK b : b = S!Op("zone", "read", transaction[q].key, clock + transaction[q].key)
    OBVIOUS
  <2>2. PICK o : o = [b EXCEPT !.seen = row, !.at = transaction[q].at]
    OBVIOUS
  <2>3. transaction' = [transaction EXCEPT ![q] = o]
    BY <1>3, <2>1, <2>2 DEF S!ReadForZone, S!Expose
  <2>4. /\ DOMAIN b = OpFields /\ b.rows = {} /\ b.after = row /\ b.kind = "zone"
    BY <2>1, NewOp
  <2>5. o.rows = {} /\ o.after = row /\ o.seen = row /\ o.kind = "zone"
    BY <2>2, <2>4 DEF OpFields
  <2>6. Valued(o)
    BY <2>5, NoRowsCount DEF Values, Valued, KnowsItsStreak
  <2>7. QED
    BY <1>1, <2>3, <2>6, OneIsValued
<1>4. QED
  BY <1>2, <1>3

\* Only the phase of a request changes.
LEMMA GoesOnIsValued ==
    ASSUME LedgerInv, Values, NEW q \in Requests, NEW at,
           transaction[q].kind # "none",
           transaction' = [transaction EXCEPT ![q].phase = at],
           transaction[q].kind = "repair" /\ at \in {"found", "read", "flushed", "committed", "stored"}
               => transaction[q].today \in Nat,
           UNCHANGED <<row, events, cached>>
    PROVE  Values'
<1>1. S!Active(q) /\ DOMAIN transaction[q] = OpFields
  BY InProgress
<1>2. PICK o : o = [transaction[q] EXCEPT !.phase = at]
  OBVIOUS
<1>3. /\ DOMAIN o = OpFields /\ o.after = transaction[q].after /\ o.rows = transaction[q].rows
      /\ o.seen = transaction[q].seen /\ o.kind = transaction[q].kind
      /\ o.today = transaction[q].today /\ o.phase = at
  BY <1>1, <1>2 DEF OpFields
<1>4. FullRow(o.seen) /\ KnowsItsStreak(o)
  BY <1>1, <1>3 DEF Values, Valued, KnowsItsStreak
<1>5. Valued(o)
  BY <1>1, <1>3, <1>4, PhaseIsValued
<1>6. transaction' = [transaction EXCEPT ![q] = o]
  BY <1>2 DEF LedgerInv, Shapes
<1>7. QED
  BY <1>5, <1>6, OneIsValued

LEMMA WaitingIsValued ==
    ASSUME LedgerInv, Values, NEW q \in Requests, S!Reserve(q) \/ S!WaitTimesOut(q)
    PROVE  Values'
<1>1. PICK at : /\ at \in {"waiting", "start"} /\ transaction[q].kind = "repair"
                /\ transaction' = [transaction EXCEPT ![q].phase = at]
                /\ UNCHANGED <<row, events, cached>>
  BY DEF S!Reserve, S!WaitTimesOut, S!database, S!redis
<1>2. QED
  BY <1>1, GoesOnIsValued

\* The request is over.
LEMMA EndIsValued ==
    ASSUME LedgerInv, Values, NEW q \in Requests,
           \/ S!SubmitFails(q) \/ S!WaitEnds(q) \/ S!FindNothing(q) \/ S!NothingToGain(q)
           \/ S!Release(q) \/ S!Die(q)
    PROVE  Values'
<1>1. /\ transaction' = [transaction EXCEPT ![q] = S!Idle]
      /\ UNCHANGED <<row, events, cached>>
  BY DEF S!SubmitFails, S!WaitEnds, S!FindNothing, S!NothingToGain, S!Release, S!Die, S!Refuse,
         S!database, S!redis
<1>2. QED
  BY <1>1, OneIsValued

\* What is flushed: the rows numbered, the columns as they should become.
LEMMA FlushIsValued ==
    ASSUME LedgerInv, Values, NEW q \in Requests, NEW after, NEW rows, S!Flush(q, after, rows),
           transaction[q].phase = "read", FullRow(after), AllCounted(rows),
           \A r \in rows : DOMAIN r = RowFields, UNCHANGED <<row, events, cached>>
    PROVE  Values'
<1>1. S!Active(q) /\ DOMAIN transaction[q] = OpFields
  BY InProgress
<1>2. PICK o : o = [transaction[q] EXCEPT !.phase = "flushed", !.after = after,
                                          !.rows = S!Numbered(rows)]
  OBVIOUS
<1>3. transaction' = [transaction EXCEPT ![q] = o]
  BY <1>2 DEF S!Flush, LedgerInv, Shapes
<1>4. /\ o.after = after /\ o.rows = S!Numbered(rows) /\ o.seen = transaction[q].seen
      /\ o.kind = transaction[q].kind /\ o.today = transaction[q].today /\ o.phase = "flushed"
  BY <1>1, <1>2 DEF OpFields
<1>5. AllCounted(o.rows)
  BY <1>4, NumberedCounts
<1>6. Valued(o)
  BY <1>1, <1>4, <1>5 DEF Values, Valued, KnowsItsStreak
<1>7. QED
  BY <1>3, <1>6, OneIsValued

LEMMA FlushSubmitIsValued ==
    ASSUME LedgerInv, Values, NEW q \in Requests, S!FlushSubmit(q)
    PROVE  Values'
<1>1. /\ transaction[q].kind = "submit" /\ transaction[q].phase = "read"
      /\ UNCHANGED <<row, events, cached>>
  BY DEF S!FlushSubmit, S!redis
<1>2. S!Active(q) /\ SoundOp(transaction[q])
  BY <1>1, InProgress
<1>3. PICK s, today, at : /\ s = transaction[q].seen /\ today = transaction[q].today
                          /\ at = transaction[q].at
  OBVIOUS
<1>4. today \in Int /\ FullRow(s)
  BY <1>1, <1>2, <1>3 DEF SoundOp, Shapely, Values, Valued
<1>5. PICK t : t = S!Transition(s, today, at)
  OBVIOUS
<1>6. FullRow(t.after) /\ AllCounted(t.rows) /\ \A r \in t.rows : DOMAIN r = RowFields
  BY <1>4, <1>5, TransitionCounts
<1>7. S!Flush(q, t.after, t.rows)
  BY <1>3, <1>5 DEF S!FlushSubmit
<1>8. QED
  BY <1>1, <1>6, <1>7, FlushIsValued

LEMMA FlushRepairIsValued ==
    ASSUME LedgerInv, Values, NEW q \in Requests, S!FlushRepair(q)
    PROVE  Values'
<1>1. /\ transaction[q].kind = "repair" /\ transaction[q].phase = "read"
      /\ UNCHANGED <<row, events, cached>>
  BY DEF S!FlushRepair, S!redis
<1>2. S!Active(q)
  BY <1>1, InProgress
<1>3. PICK s, restored, r, after :
          /\ s = transaction[q].seen /\ restored = transaction[q].today
          /\ r = S!Row("repaired", s.streak, restored, S!Today, transaction[q].found,
                       transaction[q].at)
          /\ after = [s EXCEPT !.streak = restored]
  OBVIOUS
<1>4. FullRow(s) /\ restored \in Nat /\ S!Today \in Int
  BY <1>1, <1>2, <1>3 DEF Values, Valued, KnowsItsStreak, LedgerInv, Shapes, S!Today
<1>5. FullRow(after)
  BY <1>3, <1>4 DEF FullRow, WholeRow, S!Columns
<1>6. /\ DOMAIN r = RowFields /\ r.from_value = s.streak /\ r.to_value = restored
      /\ r.local_date = S!Today
  BY <1>3 DEF S!Row, RowFields
<1>7. AllCounted({r})
  BY <1>4, <1>6, OneRowCounts DEF FullRow
<1>8. S!Flush(q, after, {r})
  BY <1>3 DEF S!FlushRepair
<1>9. QED
  BY <1>1, <1>5, <1>6, <1>7, <1>8, FlushIsValued

LEMMA FlushZoneIsValued ==
    ASSUME LedgerInv, Values, NEW q \in Requests, S!FlushZone(q)
    PROVE  Values'
<1>1. /\ transaction[q].kind = "zone" /\ transaction[q].phase = "read"
      /\ UNCHANGED <<row, events, cached>>
  BY DEF S!FlushZone, S!redis
<1>2. S!Active(q) /\ SoundOp(transaction[q])
  BY <1>1, InProgress
<1>3. PICK s, today, r, after :
          /\ s = transaction[q].seen /\ today = transaction[q].today
          /\ r = S!Row("repaired", s.streak, s.streak, today, 0, transaction[q].at)
          /\ after = [s EXCEPT !.last_active = today]
  OBVIOUS
<1>4. FullRow(s) /\ today \in Int
  BY <1>1, <1>2, <1>3 DEF SoundOp, Shapely, Values, Valued
<1>5. FullRow(after)
  BY <1>3, <1>4 DEF FullRow, WholeRow, S!Columns
<1>6. /\ DOMAIN r = RowFields /\ r.from_value = s.streak /\ r.to_value = s.streak
      /\ r.local_date = today
  BY <1>3 DEF S!Row, RowFields
<1>7. AllCounted({r})
  BY <1>4, <1>6, OneRowCounts DEF FullRow
<1>8. CASE S!Flush(q, after, {r})
  BY <1>1, <1>5, <1>6, <1>7, <1>8, FlushIsValued
<1>9. CASE transaction' = [transaction EXCEPT ![q].phase = "flushed"]
  BY <1>1, <1>9, GoesOnIsValued
<1>10. QED
  BY <1>3, <1>8, <1>9 DEF S!FlushZone

LEMMA FillIsValued ==
    ASSUME LedgerInv, Values, NEW q \in Requests, NEW d \in FillDates, S!Fill(q, d)
    PROVE  Values'
<1>1. UNCHANGED <<row, events, cached>>
  BY DEF S!Fill, S!redis
<1>2. PICK b : b = S!Op("fill", "flushed", None, d)
  OBVIOUS
<1>3. PICK r : r = S!Row("freeze_used", row.streak, row.streak, d, 0, clock)
  OBVIOUS
<1>4. PICK o : o = [b EXCEPT !.rows = S!Numbered({r})]
  OBVIOUS
<1>5. transaction' = [transaction EXCEPT ![q] = o]
  BY <1>2, <1>3, <1>4 DEF S!Fill, S!Expose
<1>6. /\ DOMAIN b = OpFields /\ b.after = row /\ b.seen = row /\ b.kind = "fill"
  BY <1>2, NewOp
<1>7. o.rows = S!Numbered({r}) /\ o.after = row /\ o.seen = row /\ o.kind = "fill"
  BY <1>4, <1>6 DEF OpFields
<1>8. /\ DOMAIN r = RowFields /\ r.from_value \in Nat /\ r.to_value \in Nat
      /\ r.local_date \in Int
  BY <1>3, StreakAssumption DEF S!Row, RowFields, Values, FullRow
<1>9. AllCounted(S!Numbered({r}))
  BY <1>8, OneRowCounts, NumberedCounts
<1>10. Valued(o)
  BY <1>7, <1>9 DEF Values, Valued, KnowsItsStreak
<1>11. QED
  BY <1>1, <1>5, <1>10, OneIsValued

\* A repair finds out what the streak is to be.
LEMMA FindIsValued ==
    ASSUME LedgerInv, Values, NEW q \in Requests, S!Find(q)
    PROVE  Values'
<1>1. /\ transaction[q].kind = "repair" /\ transaction[q].phase = "start"
      /\ UNCHANGED <<row, events, cached>>
  BY DEF S!Find, S!database, S!redis
<1>2. S!Active(q) /\ DOMAIN transaction[q] = OpFields
  BY <1>1, InProgress
<1>3. PICK r \in S!Restorable :
          S!Expose(q, [transaction[q] EXCEPT !.phase = "found", !.found = r.id,
                                             !.today = S!RestoresTo(r)])
  BY DEF S!Find
<1>4. PICK o : o = [transaction[q] EXCEPT !.phase = "found", !.found = r.id,
                                          !.today = S!RestoresTo(r)]
  OBVIOUS
<1>5. transaction' = [transaction EXCEPT ![q] = o]
  BY <1>3, <1>4 DEF S!Expose
<1>6. /\ DOMAIN o = OpFields /\ o.after = transaction[q].after /\ o.rows = transaction[q].rows
      /\ o.seen = transaction[q].seen /\ o.today = S!RestoresTo(r)
  BY <1>2, <1>4 DEF OpFields
<1>7. FullRow(o.seen) /\ KnowsItsStreak(o)
  BY <1>2, <1>6, RestoresAStreak DEF Values, Valued, KnowsItsStreak
<1>8. Valued(o)
  BY <1>2, <1>6, <1>7, PhaseIsValued
<1>9. QED
  BY <1>1, <1>5, <1>8, OneIsValued

\* The record of a repair that is committed.
LEMMA StoreIsValued ==
    ASSUME LedgerInv, Values, NEW q \in Requests, S!Store(q)
    PROVE  Values'
<1>1. /\ transaction[q].phase = "committed"
      /\ transaction' = [transaction EXCEPT ![q].phase = "stored"]
      /\ cached' = [cached EXCEPT ![transaction[q].key] = transaction[q].today]
      /\ UNCHANGED <<row, events>>
  BY DEF S!Store, S!database
<1>2. S!Active(q) /\ SoundOp(transaction[q]) /\ DOMAIN transaction[q] = OpFields
  BY <1>1, InProgress
<1>3. transaction[q].kind = "repair" /\ transaction[q].today \in Nat
  BY <1>1, <1>2 DEF SoundOp, Shapely, Values, Valued, KnowsItsStreak
<1>4. PICK o : o = [transaction[q] EXCEPT !.phase = "stored"]
  OBVIOUS
<1>5. transaction' = [transaction EXCEPT ![q] = o]
  BY <1>1, <1>4 DEF LedgerInv, Shapes
<1>6. /\ DOMAIN o = OpFields /\ o.after = transaction[q].after /\ o.rows = transaction[q].rows
      /\ o.seen = transaction[q].seen /\ o.today = transaction[q].today
  BY <1>2, <1>4 DEF OpFields
<1>7. FullRow(o.seen) /\ KnowsItsStreak(o)
  BY <1>2, <1>3, <1>6 DEF Values, Valued, KnowsItsStreak
<1>8. Valued(o)
  BY <1>2, <1>6, <1>7, PhaseIsValued
<1>9. FullRow(row)' /\ AllCounted(events)' /\ Stored'
  BY <1>1, <1>3 DEF Values, FullRow, WholeRow, AllCounted, Stored
<1>10. QED
  BY <1>5, <1>8, <1>9, OneMovesOn

\* Each column of the row is what it was or what was to be written.
LEMMA CommitIsValued ==
    ASSUME LedgerInv, Values, NEW q \in Requests, S!Commit(q)
    PROVE  Values'
<1>1. /\ transaction[q].phase = "flushed" /\ row' = S!Written(transaction[q])
      /\ events' = events \cup transaction[q].rows /\ cached' = cached
  BY DEF S!Commit, S!redis
<1>2. S!Active(q) /\ SoundOp(transaction[q]) /\ DOMAIN transaction[q] = OpFields
  BY <1>1, InProgress
<1>3. Valued(transaction[q])
  BY <1>2 DEF Values
<1>4. PICK t : t = transaction[q]
  OBVIOUS
<1>5. FullRow(row) /\ FullRow(t.after) /\ FullRow(t.seen)
  BY <1>3, <1>4 DEF Values, Valued
<1>6. /\ DOMAIN row' = S!Columns
      /\ \A c \in S!Columns : row'[c] = t.after[c] \/ row'[c] = row[c]
  BY <1>1, <1>4 DEF S!Written
<1>7. FullRow(row)'
  BY <1>5, <1>6 DEF FullRow, WholeRow, S!Columns
<1>8. AllCounted(events \cup transaction[q].rows)
  BY <1>3, MoreCount DEF Values, Valued
<1>9. AllCounted(events)'
  BY <1>1, <1>8 DEF AllCounted
<1>10. Stored'
  BY <1>1 DEF Values, Stored
<1>11. CASE transaction' = [transaction EXCEPT ![q] = S!Idle]
  BY <1>7, <1>9, <1>10, <1>11, OneMovesOn
<1>12. CASE /\ transaction[q].kind = "repair"
            /\ transaction' = [transaction EXCEPT ![q].phase = "committed"]
  <2>1. PICK o : o = [transaction[q] EXCEPT !.phase = "committed"]
    OBVIOUS
  <2>2. transaction' = [transaction EXCEPT ![q] = o]
    BY <1>12, <2>1 DEF LedgerInv, Shapes
  <2>3. /\ DOMAIN o = OpFields /\ o.after = transaction[q].after
        /\ o.rows = transaction[q].rows /\ o.seen = transaction[q].seen
        /\ o.today = transaction[q].today
    BY <1>2, <2>1 DEF OpFields
  <2>4. FullRow(o.seen) /\ KnowsItsStreak(o)
    BY <1>1, <1>3, <1>12, <2>3 DEF Valued, KnowsItsStreak
  <2>5. Valued(o)
    BY <1>2, <2>3, <2>4, PhaseIsValued
  <2>6. QED
    BY <1>7, <1>9, <1>10, <2>2, <2>5, OneMovesOn
<1>13. QED
  BY <1>11, <1>12 DEF S!Commit

LEMMA ElsewhereIsValued ==
    ASSUME LedgerInv, Values,
           \/ \E q \in Requests, k \in Keys : S!AskAgain(q, k)
           \/ \E k \in Keys : S!ReservationExpires(k)
           \/ S!NextDay
           \/ UNCHANGED S!vars
    PROVE  Values'
<1>1. UNCHANGED <<row, events, cached, transaction>>
  BY DEF S!AskAgain, S!ReservationExpires, S!NextDay, S!vars, S!database, S!redis
<1>2. QED
  BY <1>1 DEF Values, FullRow, WholeRow, AllCounted, Stored, S!Active, Valued, KnowsItsStreak

LEMMA ValuesInitially == S!Init => Values
<1> SUFFICES ASSUME S!Init PROVE Values
  OBVIOUS
<1>1. row = [streak |-> 1, last_active |-> 3, freezes |-> 1, attempts |-> 2]
  BY DEF S!Init
<1>2. FullRow(row)
  BY <1>1, StreakAssumption DEF FullRow, WholeRow, S!Columns
<1>3. PICK a, b : /\ a = [S!Row("extended", 0, 1, 0, 0, 0) EXCEPT !.id = 1]
                  /\ b = [S!Row("reset", 1, 1, 3, 0, 3) EXCEPT !.id = 2]
  OBVIOUS
<1>4. /\ a.from_value = 0 /\ a.to_value = 1 /\ a.local_date = 0
      /\ b.from_value = 1 /\ b.to_value = 1 /\ b.local_date = 3
  BY <1>3 DEF S!Row
<1>5. AllCounted({a}) /\ AllCounted({b})
  BY <1>4, OneRowCounts
<1>6. events = {a} \cup {b}
  BY <1>3 DEF S!Init
<1>7. AllCounted(events)
  BY <1>5, <1>6, MoreCount
<1>8. Stored /\ \A q \in Requests : ~S!Active(q)
  BY DEF S!Init, Stored, S!Active
<1>9. QED
  BY <1>2, <1>7, <1>8 DEF Values

LEMMA ValuesStay == LedgerInv /\ Values /\ [S!Next]_S!vars => Values'
<1> SUFFICES ASSUME LedgerInv, Values, [S!Next]_S!vars PROVE Values'
  OBVIOUS
<1>1. ASSUME NEW q \in Requests, S!Step(q) PROVE Values'
  <2>1. CASE \/ S!StartSubmit(q) \/ \E z \in Zones : S!StartZone(q, z)
             \/ \E k \in Keys : S!Ask(q, k)
    BY <2>1, BeginIsValued
  <2>2. CASE S!ReadForSubmit(q) \/ S!ReadForRepair(q) \/ S!ReadForZone(q)
    BY <2>2, ReadIsValued
  <2>3. CASE S!FlushSubmit(q)
    BY <2>3, FlushSubmitIsValued
  <2>4. CASE S!FlushRepair(q)
    BY <2>4, FlushRepairIsValued
  <2>5. CASE S!FlushZone(q)
    BY <2>5, FlushZoneIsValued
  <2>6. CASE \E d \in FillDates : S!Fill(q, d)
    BY <2>6, FillIsValued
  <2>7. CASE S!Reserve(q) \/ S!WaitTimesOut(q)
    BY <2>7, WaitingIsValued
  <2>8. CASE S!Find(q)
    BY <2>8, FindIsValued
  <2>9. CASE S!Store(q)
    BY <2>9, StoreIsValued
  <2>10. CASE S!Commit(q)
    BY <2>10, CommitIsValued
  <2>11. CASE \/ S!SubmitFails(q) \/ S!WaitEnds(q) \/ S!FindNothing(q) \/ S!NothingToGain(q)
              \/ S!Release(q) \/ S!Die(q)
    BY <2>11, EndIsValued
  <2>12. CASE \E k \in Keys : S!AskAgain(q, k)
    BY <2>12, ElsewhereIsValued
  <2>13. QED
    BY <1>1, <2>1, <2>2, <2>3, <2>4, <2>5, <2>6, <2>7, <2>8, <2>9, <2>10, <2>11, <2>12
       DEF S!Step
<1>2. CASE \/ \E k \in Keys : S!ReservationExpires(k)
           \/ S!NextDay
           \/ UNCHANGED S!vars
  BY <1>2, ElsewhereIsValued
<1>3. QED
  BY <1>1, <1>2 DEF S!Next

(* The streak's row and ledger: however the transactions overlap, the       *)
(* balance of freezes stays between zero and STREAK_FREEZE_MAX (the column  *)
(* has no CHECK; streak/service.py pays and earns against what it read).    *)
THEOREM StreakIsTyped == S!Spec => []S!TypeOK
<1>1. S!Init => LedgerInv /\ Values
  BY LedgerInitially, ValuesInitially
<1>2. LedgerInv /\ Values /\ [S!Next]_S!vars => (LedgerInv /\ Values)'
  BY LedgerIsInductive, ValuesStay
<1>3. LedgerInv /\ Values => S!TypeOK
  <2> SUFFICES ASSUME LedgerInv, Values PROVE S!TypeOK
    OBVIOUS
  <2>1. /\ row.streak \in Nat /\ row.freezes \in 0 .. FREEZE_MAX
        /\ row.last_active \in Int /\ row.attempts \in Nat
    BY DEF Values, FullRow, WholeRow
  <2>2. \A r \in events : r.id \in 1 .. (next_id - 1)
    BY DEF LedgerInv, Shapes, HaveIds
  <2>3. \A q \in Requests :
            S!Active(q) => transaction[q].kind \in {"submit", "repair", "zone", "fill"}
    BY DEF LedgerInv, SoundOp, Shapely
  <2>4. QED
    BY <2>1, <2>2, <2>3 DEF S!TypeOK, Values, Stored
<1>4. QED
  BY <1>1, <1>2, <1>3, PTL DEF S!Spec

-----------------------------------------------------------------------------
(* Every part keeps its shape, so the whole does: one process grades, a     *)
(* verdict takes at least one attempt at grading, and None is no job.       *)
THEOREM ServicesTyping ==
    ASSUME IsFiniteSet(Attempts), MAX_RETRY_ATTEMPTS \in Nat \ {0},
           \A j, k \in Jobs : j = k, None \notin Triggerable
    PROVE  Spec => []TypeOK
<1>1. /\ R!Spec => []R!TypeOK
      /\ V!Spec => []V!TypeOK
      /\ G!Spec => []G!TypeOK
      /\ S!Spec => []S!TypeOK
      /\ J!Spec => []J!TypeOK
      /\ B!Spec => []B!TypeOK
      /\ P!Spec => []P!TypeOK
  BY SignInIsTyped, AddressIsTyped, GradingIsTyped, StreakIsTyped, TriggerIsTyped, BucketIsTyped,
     PracticeIsTyped
<1>2. R!TypeOK /\ V!TypeOK /\ G!TypeOK /\ S!TypeOK /\ J!TypeOK /\ B!TypeOK /\ P!TypeOK => TypeOK
  BY DEF TypeOK
<1>3. QED
  BY <1>1, <1>2, PartsAsTheyAre, PTL

-----------------------------------------------------------------------------
(* Feedback: whatever was open when a request looked is settled for good.  *)
\* What a user says of an exercise, and of the product.
DisputeRow == [by : Senders, open : BOOLEAN]

LetterPhases == {"new", "refused", "disputing", "disputed", "reviewing", "written", "failed",
                  "reviewed"}

LetterRow == [phase : LetterPhases, found : BOOLEAN, rating : Ratings \cup {None}]

FeedbackTypes ==
    /\ disputes \in Seq(DisputeRow)
    /\ opinions \in Seq(Ratings)
    /\ letters \in [Senders -> LetterRow]
    /\ \A r \in Senders : letters[r].phase \in {"reviewing", "written"} => letters[r].rating \in Ratings
    /\ looked \in [Senders -> Nat]

LEMMA DisputesAreShaped ==
    ASSUME FeedbackTypes
    PROVE  /\ Len(disputes) \in Nat /\ DOMAIN disputes = 1 .. Len(disputes)
           /\ \A j \in 1 .. Len(disputes) :
                  disputes[j] \in DisputeRow /\ disputes[j].by \in Senders
<1>1. disputes \in Seq(DisputeRow)
  BY DEF FeedbackTypes
<1>2. Len(disputes) \in Nat /\ DOMAIN disputes = 1 .. Len(disputes)
      /\ \A j \in 1 .. Len(disputes) : disputes[j] \in DisputeRow
  BY <1>1
<1>3. QED
  BY <1>2 DEF DisputeRow

\* Whatever was open when a request looked is settled for good.
SettledBefore(r) ==
    /\ looked[r] <= Len(disputes)
    /\ \A i \in 1 .. looked[r] : ~disputes[i].open

LookedFirst ==
    /\ \A r \in Senders : letters[r].phase = "disputing" => SettledBefore(r)
    /\ \A j \in DOMAIN disputes :
           SettledBefore(disputes[j].by) /\ letters[disputes[j].by].phase = "disputed"

FeedbackInv == FeedbackTypes /\ LookedFirst /\ D!ReviewIsTheNewestOpinion /\ IsFiniteSet(D!Reviewed)

LEMMA CardinalityInFeedback == \A T : D!Cardinality(T) = Cardinality(T)
BY DEF D!Cardinality, Cardinality

LEMMA FeedbackInit == D!Init => FeedbackInv
<1> SUFFICES ASSUME D!Init PROVE FeedbackInv
  OBVIOUS
<1>1. letters = [r \in Senders |-> D!New] /\ D!New = [phase |-> "new", found |-> FALSE, rating |-> None]
  BY DEF D!Init, D!New
<1>2. D!Reviewed = {}
  BY <1>1 DEF D!Reviewed
<1>3. FeedbackTypes
  <2>1. D!New \in LetterRow
    BY <1>1 DEF LetterRow, LetterPhases
  <2>2. \A r \in Senders : letters[r] \in LetterRow /\ letters[r].phase = "new"
    BY <1>1, <2>1
  <2>3. QED
    BY <1>1, <2>1, <2>2 DEF D!Init, FeedbackTypes
<1>4. LookedFirst
  BY <1>1 DEF D!Init, LookedFirst
<1>5. D!ReviewIsTheNewestOpinion /\ IsFiniteSet(D!Reviewed)
  <2>1. Cardinality(D!Reviewed) = 0 /\ IsFiniteSet(D!Reviewed)
    BY <1>2, FS_EmptySet
  <2>2. review = None /\ opinions = <<>> /\ Len(<<>>) = 0
    BY DEF D!Init
  <2>3. QED
    BY <2>1, <2>2, CardinalityInFeedback DEF D!ReviewIsTheNewestOpinion
<1>6. QED
  BY <1>3, <1>4, <1>5 DEF FeedbackInv

\* A request that moves on, the review and the disputes as they were.
LEMMA LetterMoves ==
    ASSUME FeedbackInv, NEW r \in Senders, NEW to \in LetterPhases,
           D!Goto(r, to), UNCHANGED <<disputes, review, opinions>>,
           letters[r].phase \notin {"reviewed", "disputed"},
           to \notin {"reviewed", "disputed", "reviewing"},
           to = "written" => letters[r].phase = "reviewing",
           looked' \in [Senders -> Nat], \A s \in Senders \ {r} : looked'[s] = looked[s],
           to = "disputing" => SettledBefore(r)'
    PROVE  FeedbackInv'
<1>1. /\ letters'[r] = [letters[r] EXCEPT !.phase = to]
      /\ \A s \in Senders \ {r} : letters'[s] = letters[s]
  BY DEF D!Goto, FeedbackInv, FeedbackTypes
<1>2. FeedbackTypes'
  <2>1. letters' \in [Senders -> LetterRow]
    BY ZenonT(30) DEF D!Goto, FeedbackInv, FeedbackTypes, LetterRow
  <2>2. \A s \in Senders : letters'[s].phase \in {"reviewing", "written"} => letters'[s].rating \in Ratings
    <3>1. letters'[r].phase = to /\ letters'[r].rating = letters[r].rating
      BY <1>1 DEF FeedbackInv, FeedbackTypes, LetterRow
    <3>2. QED
      BY <1>1, <3>1 DEF FeedbackInv, FeedbackTypes
  <2>3. QED
    BY <2>1, <2>2 DEF FeedbackInv, FeedbackTypes
<1>3. LookedFirst'
  <2>1. ASSUME NEW s \in Senders, letters'[s].phase = "disputing" PROVE SettledBefore(s)'
    <3>1. CASE s = r
      BY <1>1, <2>1, <3>1 DEF FeedbackInv, FeedbackTypes, LetterRow
    <3>2. CASE s # r
      BY <1>1, <2>1, <3>2 DEF FeedbackInv, LookedFirst, SettledBefore
    <3>3. QED
      BY <3>1, <3>2
  <2>2. ASSUME NEW j \in DOMAIN disputes
        PROVE  SettledBefore(disputes[j].by)' /\ letters'[disputes[j].by].phase = "disputed"
    <3>1. disputes[j].by \in Senders /\ disputes[j].by # r
      BY DisputesAreShaped DEF FeedbackInv, LookedFirst
    <3>2. QED
      BY <1>1, <3>1 DEF FeedbackInv, LookedFirst, SettledBefore
  <2>3. QED
    BY <2>1, <2>2 DEF LookedFirst
<1>4. D!Reviewed' = D!Reviewed
  <2>1. letters'[r].phase = to
    BY <1>1 DEF FeedbackInv, FeedbackTypes, LetterRow
  <2>2. QED
    BY <1>1, <2>1 DEF D!Reviewed
<1>5. QED
  BY <1>2, <1>3, <1>4 DEF FeedbackInv, D!ReviewIsTheNewestOpinion

LEMMA CheckOpenStep ==
    ASSUME FeedbackInv, NEW r \in Senders, D!CheckOpen(r)
    PROVE  FeedbackInv'
<1>1. PICK to \in {"refused", "disputing"} :
          D!Goto(r, to) /\ (to = "disputing" => D!Open = {})
  BY DEF D!CheckOpen
<1>2. /\ letters[r].phase = "new" /\ looked' = [looked EXCEPT ![r] = Len(disputes)]
      /\ UNCHANGED <<disputes, review, opinions>>
  BY DEF D!CheckOpen
<1>3. looked' \in [Senders -> Nat] /\ looked'[r] = Len(disputes)
      /\ \A s \in Senders \ {r} : looked'[s] = looked[s]
  BY <1>2 DEF FeedbackInv, FeedbackTypes
<1>4. D!Open = {} => SettledBefore(r)'
  <2>1. Len(disputes) \in Nat /\ DOMAIN disputes = 1 .. Len(disputes)
    BY DisputesAreShaped DEF FeedbackInv
  <2>2. QED
    BY <1>2, <1>3, <2>1 DEF D!Open, SettledBefore
<1>5. to \in LetterPhases \ {"reviewed", "disputed", "reviewing", "written"}
  BY DEF LetterPhases
<1>6. QED
  BY <1>1, <1>2, <1>3, <1>4, <1>5, LetterMoves

LEMMA OpenDisputeStep ==
    ASSUME FeedbackInv, NEW r \in Senders, D!OpenDispute(r)
    PROVE  FeedbackInv'
<1> DEFINE d == [by |-> r, open |-> TRUE]
<1>1. /\ disputes' = Append(disputes, d) /\ letters[r].phase = "disputing"
      /\ letters' = [letters EXCEPT ![r].phase = "disputed"] /\ UNCHANGED <<review, opinions, looked>>
  BY DEF D!OpenDispute, D!Goto
<1>2. /\ letters'[r].phase = "disputed" /\ \A s \in Senders \ {r} : letters'[s] = letters[s]
  BY <1>1 DEF FeedbackInv, FeedbackTypes
<1>3. /\ disputes' \in Seq(DisputeRow)
      /\ Len(disputes') = Len(disputes) + 1 /\ Len(disputes) \in Nat
      /\ \A i \in 1 .. Len(disputes) : disputes'[i] = disputes[i]
      /\ disputes'[Len(disputes) + 1] = d
  <2>1. d \in DisputeRow
    BY DEF DisputeRow
  <2>2. disputes \in Seq(DisputeRow)
    BY DEF FeedbackInv, FeedbackTypes
  <2> HIDE DEF d
  <2>3. QED
    BY <1>1, <2>1, <2>2
<1>4. FeedbackTypes'
  <2>1. letters' \in [Senders -> LetterRow]
    BY <1>1 DEF FeedbackInv, FeedbackTypes, LetterRow, LetterPhases
  <2>2. QED
    BY <1>1, <1>2, <1>3, <2>1 DEF FeedbackInv, FeedbackTypes
<1>5. \A s \in Senders : SettledBefore(s) => SettledBefore(s)'
  BY <1>1, <1>3 DEF SettledBefore, FeedbackInv, FeedbackTypes
<1>6. LookedFirst'
  <2>1. \A s \in Senders : letters'[s].phase = "disputing" => SettledBefore(s)'
    BY <1>2, <1>5 DEF FeedbackInv, LookedFirst
  <2>2. ASSUME NEW j \in DOMAIN disputes', NEW s \in Senders, s = disputes'[j].by
        PROVE  SettledBefore(s)' /\ letters'[s].phase = "disputed"
    <3>1. CASE j = Len(disputes) + 1
      <4>1. s = r
        BY <1>3, <2>2, <3>1
      <4>2. QED
        BY <1>1, <1>2, <1>5, <4>1 DEF FeedbackInv, LookedFirst
    <3>2. CASE j \in DOMAIN disputes
      <4>1. s = disputes[j].by
        BY <1>3, <2>2, <3>2, DisputesAreShaped DEF FeedbackInv
      <4>2. SettledBefore(s) /\ letters[s].phase = "disputed"
        BY <3>2, <4>1 DEF FeedbackInv, LookedFirst
      <4>3. QED
        BY <1>1, <1>2, <1>5, <4>2
    <3>3. DOMAIN disputes' = 1 .. Len(disputes) + 1
      BY <1>3
    <3>4. QED
      BY <1>3, <3>1, <3>2, <3>3, DisputesAreShaped DEF FeedbackInv
  <2>3. \A j \in DOMAIN disputes' : disputes'[j].by \in Senders
    <3>1. \A j \in DOMAIN disputes' : disputes'[j] \in DisputeRow
      BY <1>3
    <3>2. QED
      BY <3>1 DEF DisputeRow
  <2>4. QED
    BY <2>1, <2>2, <2>3 DEF LookedFirst
<1>7. D!Reviewed' = D!Reviewed
  BY <1>1, <1>2 DEF D!Reviewed
<1>8. QED
  BY <1>1, <1>4, <1>6, <1>7 DEF FeedbackInv, D!ReviewIsTheNewestOpinion

LEMMA SettleStep ==
    ASSUME FeedbackInv, NEW i \in DOMAIN disputes, D!Settle(i)
    PROVE  FeedbackInv'
<1>1. /\ disputes' = [disputes EXCEPT ![i].open = FALSE]
      /\ UNCHANGED <<review, opinions, letters, looked>>
  BY DEF D!Settle
<1>2. /\ disputes' \in Seq(DisputeRow)
      /\ Len(disputes') = Len(disputes) /\ DOMAIN disputes' = DOMAIN disputes
      /\ \A k \in DOMAIN disputes :
             disputes'[k].by = disputes[k].by /\ (disputes'[k].open => disputes[k].open)
  <2>1. disputes \in Seq(DisputeRow) /\ disputes[i] \in DisputeRow
    BY DisputesAreShaped DEF FeedbackInv, FeedbackTypes
  <2>2. [disputes[i] EXCEPT !.open = FALSE] \in DisputeRow
    BY <2>1 DEF DisputeRow
  <2>3. disputes' = [disputes EXCEPT ![i] = [disputes[i] EXCEPT !.open = FALSE]]
    BY <1>1
  <2>4. disputes' \in Seq(DisputeRow)
    BY <2>1, <2>2, <2>3
  <2>5. Len(disputes') = Len(disputes) /\ DOMAIN disputes' = DOMAIN disputes
    BY <2>1, <2>3, <2>4
  <2>6. disputes'[i].by = disputes[i].by /\ disputes'[i].open = FALSE
        /\ \A k \in DOMAIN disputes \ {i} : disputes'[k] = disputes[k]
    BY <2>1, <2>3 DEF DisputeRow
  <2>7. QED
    BY <2>4, <2>5, <2>6
<1>3. ASSUME NEW s \in Senders, SettledBefore(s) PROVE SettledBefore(s)'
  <2>1. \A k \in 1 .. looked[s] : k \in DOMAIN disputes
    BY <1>3, DisputesAreShaped DEF SettledBefore, FeedbackInv, FeedbackTypes
  <2>2. QED
    BY <1>1, <1>2, <1>3, <2>1 DEF SettledBefore
<1>4. FeedbackTypes'
  BY <1>1, <1>2 DEF FeedbackInv, FeedbackTypes
<1>5. LookedFirst'
  <2>1. \A j \in DOMAIN disputes : disputes[j].by \in Senders
    BY DisputesAreShaped DEF FeedbackInv
  <2>2. QED
    BY <1>1, <1>2, <1>3, <2>1 DEF FeedbackInv, LookedFirst
<1>6. D!Reviewed' = D!Reviewed
  BY <1>1 DEF D!Reviewed
<1>7. QED
  BY <1>1, <1>4, <1>5, <1>6 DEF FeedbackInv, D!ReviewIsTheNewestOpinion

LEMMA ReadReviewStep ==
    ASSUME FeedbackInv, NEW r \in Senders, NEW rating \in Ratings, D!ReadReview(r, rating)
    PROVE  FeedbackInv'
<1>1. /\ letters[r].phase = "new" /\ UNCHANGED <<disputes, review, opinions, looked>>
      /\ letters' = [letters EXCEPT ![r] = [phase |-> "reviewing", found |-> review # None,
                                    rating |-> rating]]
  BY DEF D!ReadReview
<1>2. /\ letters'[r] = [phase |-> "reviewing", found |-> review # None, rating |-> rating]
      /\ \A s \in Senders \ {r} : letters'[s] = letters[s]
  BY <1>1 DEF FeedbackInv, FeedbackTypes
<1>3. FeedbackTypes'
  <2>1. (review # None) \in BOOLEAN
    OBVIOUS
  <2>2. letters' \in [Senders -> LetterRow]
    BY <1>1, <2>1 DEF FeedbackInv, FeedbackTypes, LetterRow, LetterPhases
  <2>3. QED
    BY <1>1, <1>2, <2>2 DEF FeedbackInv, FeedbackTypes
<1>4. LookedFirst'
  <2>1. \A j \in DOMAIN disputes : disputes[j].by \in Senders \ {r}
    BY <1>1, DisputesAreShaped DEF FeedbackInv, LookedFirst
  <2>2. QED
    BY <1>1, <1>2, <2>1 DEF FeedbackInv, LookedFirst, SettledBefore
<1>5. D!Reviewed' = D!Reviewed
  BY <1>1, <1>2 DEF D!Reviewed
<1>6. QED
  BY <1>1, <1>3, <1>4, <1>5 DEF FeedbackInv, D!ReviewIsTheNewestOpinion

LEMMA CommitReviewStep ==
    ASSUME FeedbackInv, NEW r \in Senders, D!CommitReview(r)
    PROVE  FeedbackInv'
<1> DEFINE rating == letters[r].rating
<1>1. /\ letters[r].phase = "written" /\ review' = rating /\ opinions' = Append(opinions, rating)
      /\ letters' = [letters EXCEPT ![r].phase = "reviewed"] /\ UNCHANGED <<disputes, looked>>
  BY DEF D!CommitReview, D!Goto
<1>2. letters'[r].phase = "reviewed" /\ \A s \in Senders \ {r} : letters'[s] = letters[s]
  BY <1>1 DEF FeedbackInv, FeedbackTypes
<1>3. rating \in Ratings
  BY <1>1 DEF FeedbackInv, FeedbackTypes
<1>4. /\ opinions' \in Seq(Ratings) /\ opinions' # <<>> /\ Len(opinions') = Len(opinions) + 1
      /\ opinions'[Len(opinions')] = review' /\ Len(opinions) \in Nat
  <2>1. opinions \in Seq(Ratings)
    BY DEF FeedbackInv, FeedbackTypes
  <2> HIDE DEF rating
  <2>2. QED
    BY <1>1, <1>3, <2>1
<1>5. FeedbackTypes'
  <2>1. letters' \in [Senders -> LetterRow]
    BY <1>1 DEF FeedbackInv, FeedbackTypes, LetterRow, LetterPhases
  <2>2. QED
    BY <1>1, <1>2, <1>4, <2>1 DEF FeedbackInv, FeedbackTypes
<1>6. LookedFirst'
  <2>1. \A j \in DOMAIN disputes : disputes[j].by \in Senders \ {r}
    BY <1>1, DisputesAreShaped DEF FeedbackInv, LookedFirst
  <2>2. QED
    BY <1>1, <1>2, <2>1 DEF FeedbackInv, LookedFirst, SettledBefore
<1>7. D!Reviewed' = D!Reviewed \cup {r} /\ r \notin D!Reviewed
  BY <1>1, <1>2 DEF D!Reviewed
<1>8. IsFiniteSet(D!Reviewed') /\ Cardinality(D!Reviewed') = Cardinality(D!Reviewed) + 1
  BY <1>7, FS_AddElement DEF FeedbackInv
<1>9. D!ReviewIsTheNewestOpinion'
  <2>1. Len(opinions) = Cardinality(D!Reviewed)
    BY CardinalityInFeedback DEF FeedbackInv, D!ReviewIsTheNewestOpinion
  <2>2. Len(opinions') = Cardinality(D!Reviewed')
    BY <1>4, <1>8, <2>1
  <2>3. QED
    BY <1>4, <2>2, CardinalityInFeedback DEF D!ReviewIsTheNewestOpinion
<1>10. QED
  BY <1>5, <1>6, <1>8, <1>9 DEF FeedbackInv

LEMMA FeedbackStep == FeedbackInv /\ [D!Next]_D!vars => FeedbackInv'
<1> SUFFICES ASSUME FeedbackInv, [D!Next]_D!vars PROVE FeedbackInv'
  OBVIOUS
<1>1. ASSUME NEW r \in Senders, D!WriteReview(r) PROVE FeedbackInv'
  <2>1. PICK to \in {"failed", "written"} : D!Goto(r, to)
    BY <1>1 DEF D!WriteReview
  <2>2. letters[r].phase = "reviewing" /\ UNCHANGED <<disputes, review, opinions, looked>>
    BY <1>1 DEF D!WriteReview
  <2>3. looked' \in [Senders -> Nat] /\ \A s \in Senders : looked'[s] = looked[s]
    BY <2>2 DEF FeedbackInv, FeedbackTypes
  <2>4. to \in LetterPhases \ {"reviewed", "disputed", "reviewing", "disputing"}
    BY DEF LetterPhases
  <2>5. QED
    BY <2>1, <2>2, <2>3, <2>4, LetterMoves
<1>2. ASSUME NEW r \in Senders, D!AbortReview(r) PROVE FeedbackInv'
  <2>1. D!Goto(r, "failed") /\ letters[r].phase = "written"
        /\ UNCHANGED <<disputes, review, opinions, looked>>
    BY <1>2 DEF D!AbortReview
  <2>2. looked' \in [Senders -> Nat] /\ \A s \in Senders : looked'[s] = looked[s]
    BY <2>1 DEF FeedbackInv, FeedbackTypes
  <2>3. "failed" \in LetterPhases \ {"reviewed", "disputed", "reviewing", "disputing", "written"}
    BY DEF LetterPhases
  <2>4. QED
    BY <2>1, <2>2, <2>3, LetterMoves
<1>3. CASE UNCHANGED D!vars
  <2>1. D!Reviewed' = D!Reviewed
    BY <1>3 DEF D!vars, D!Reviewed
  <2>2. QED
    BY <1>3, <2>1 DEF D!vars, FeedbackInv, FeedbackTypes, LookedFirst, SettledBefore,
                      D!ReviewIsTheNewestOpinion
<1>4. QED
  BY <1>1, <1>2, <1>3, CheckOpenStep, OpenDisputeStep, ReadReviewStep, CommitReviewStep,
     SettleStep DEF D!Next

LEMMA FeedbackHolds == D!Spec => []FeedbackInv
<1>1. QED
  BY FeedbackInit, FeedbackStep, PTL DEF D!Spec

\* Two disputes of one exercise are open only if the second was sent while
\* the first was under way (disputes/service.py:35-47).
THEOREM DisputesOverlap == D!Spec => []D!SecondDisputeOverlaps
<1>1. ASSUME FeedbackInv PROVE D!SecondDisputeOverlaps
  <2> SUFFICES ASSUME NEW i \in D!Open, NEW j \in D!Open, i < j,
                      ~ (looked[disputes[j].by] < i)
               PROVE  FALSE
    BY DEF D!SecondDisputeOverlaps
  <2>1. i \in DOMAIN disputes /\ j \in DOMAIN disputes /\ disputes[i].open
        /\ disputes[j].by \in Senders /\ i \in Nat \ {0}
    BY <1>1, DisputesAreShaped DEF D!Open, FeedbackInv
  <2>2. looked[disputes[j].by] \in Nat /\ SettledBefore(disputes[j].by)
    BY <1>1, <2>1 DEF FeedbackInv, FeedbackTypes, LookedFirst
  <2>3. QED
    BY <2>1, <2>2 DEF SettledBefore
<1>2. QED
  BY <1>1, FeedbackHolds, PTL

\* The review is the newest of the opinions that were accepted, and the
\* history has each of them once (reviews/service.py:29-54).
THEOREM ReviewsAreTheNewest == D!Spec => []D!ReviewIsTheNewestOpinion
<1>1. FeedbackInv => D!ReviewIsTheNewestOpinion
  BY DEF FeedbackInv
<1>2. QED
  BY <1>1, FeedbackHolds, PTL

\* Both, of the whole (disputes/service.py:35-47, reviews/service.py:29-54).
THEOREM FeedbackStaysSound == Spec => []FeedbackIsSound
<1>1. D!SecondDisputeOverlaps /\ D!ReviewIsTheNewestOpinion => FeedbackIsSound
  BY DEF FeedbackIsSound, D!FeedbackIsSound
<1>2. QED
  BY <1>1, PartsAsTheyAre, DisputesOverlap, ReviewsAreTheNewest, PTL
=============================================================================
