---------------------------- MODULE RefreshTokens ----------------------------
(***************************************************************************)
(* One user's sign-in: a family of rotating refresh tokens on the server   *)
(* (app/auth), and the tabs of one browser, which share the cookie but     *)
(* each keep a single refresh in flight (lib/api.ts, lib/auth-context.tsx; *)
(* the access token it yields decides nothing here).  A refresh reads its  *)
(* token without a lock, commits, and answers; answers are lost, tokens    *)
(* expire, an administrator takes the user's access away.                  *)
(***************************************************************************)
EXTENDS Integers, Sequences, FiniteSets, SequencesExt

CONSTANTS
    Tabs,
    MaxTokens,     \* bound: refresh tokens ever issued
    MaxRequests    \* bound: refreshes and logouts ever sent

VARIABLES
    tokens,      \* refresh_tokens rows, in the order of their commit
    beta,        \* users.beta_allowed, with the gate on
    jar,         \* the token in the browser's cookie, 0 for none
    status,      \* loading, in or out: what each tab shows
    flight,      \* the refresh each tab awaits, 0 for none
    reqs         \* refreshes and logouts sent to the server, in order

vars == <<tokens, beta, jar, status, flight, reqs>>
client == <<jar, status, flight>>

(* read is how many tokens there were when the request that issued this    *)
(* one read its parent; lost says its response never came.                 *)
Token(parent, family, tab, read) ==
    [parent |-> parent, family |-> family, rotated |-> FALSE, revoked |-> FALSE,
     expired |-> FALSE, tab |-> tab, read |-> read, lost |-> FALSE]

Usable(i) == i # 0 /\ ~tokens[i].rotated /\ ~tokens[i].revoked /\ ~tokens[i].expired

Send(kind, t) ==
    reqs' = Append(reqs, [kind |-> kind, tab |-> t, token |-> jar, phase |-> "sent",
                          read |-> 0, child |-> 0])

-----------------------------------------------------------------------------
(* github_callback: a new family; the page it redirects to starts afresh. *)
Login(t) ==
    /\ beta /\ Len(tokens) < MaxTokens /\ status[t] = "out" /\ flight[t] = 0
    /\ tokens' = Append(tokens, Token(0, Len(tokens) + 1, t, Len(tokens)))
    /\ jar' = Len(tokens) + 1
    /\ status' = [status EXCEPT ![t] = "loading"]
    /\ UNCHANGED <<beta, flight, reqs>>

(* On load, on the timer, and on every call answered with 401: all join    *)
(* the refresh that is in flight.                                          *)
RefreshAlways(t) ==                                            \* no single flight
    /\ status[t] # "out" /\ Len(reqs) < MaxRequests
    /\ Send("refresh", t)
    /\ flight' = [flight EXCEPT ![t] = Len(reqs) + 1]
    /\ UNCHANGED <<tokens, beta, jar, status>>

Refresh(t) ==
    /\ status[t] # "out" /\ flight[t] = 0 /\ Len(reqs) < MaxRequests
    /\ Send("refresh", t)
    /\ flight' = [flight EXCEPT ![t] = Len(reqs) + 1]
    /\ UNCHANGED <<tokens, beta, jar, status>>

Logout(t) ==
    /\ status[t] = "in" /\ Len(reqs) < MaxRequests
    /\ Send("logout", t)
    /\ UNCHANGED <<tokens, beta, client>>

-----------------------------------------------------------------------------
(* rotate_refresh_token up to its checks; a rotated or revoked token only  *)
(* raises an alarm, its family stays.                                      *)
ReadAny(r) ==                                            \* rotated_at is not looked at
    LET i == reqs[r].token IN
    /\ reqs[r].kind = "refresh" /\ reqs[r].phase = "sent"
    /\ reqs' = [reqs EXCEPT ![r].read = Len(tokens),
                            ![r].phase = IF i # 0 /\ ~tokens[i].revoked /\ ~tokens[i].expired /\ beta
                                         THEN "passed" ELSE "refused"]
    /\ UNCHANGED <<tokens, beta, client>>

Read(r) ==
    LET i == reqs[r].token IN
    /\ reqs[r].kind = "refresh" /\ reqs[r].phase = "sent"
    /\ reqs' = [reqs EXCEPT ![r].read = Len(tokens),
                            ![r].phase = IF Usable(i) /\ beta THEN "passed"
                                         ELSE IF i # 0 /\ (tokens[i].rotated \/ tokens[i].revoked)
                                              THEN "alarm" ELSE "refused"]
    /\ UNCHANGED <<tokens, beta, client>>

(* Its commit: the old token is stamped, whatever became of it meanwhile,  *)
(* and a child of the same family is issued.                               *)
Rotate(r) ==
    LET p == reqs[r].token IN
    /\ reqs[r].phase = "passed" /\ Len(tokens) < MaxTokens
    /\ tokens' = Append([tokens EXCEPT ![p].rotated = TRUE],
                        [Token(p, tokens[p].family, reqs[r].tab, reqs[r].read)
                             EXCEPT !.lost = flight[reqs[r].tab] # r])
    /\ reqs' = [reqs EXCEPT ![r].phase = "committed", ![r].child = Len(tokens) + 1]
    /\ UNCHANGED <<beta, client>>

(* revoke_refresh_family: every token of the family that is committed. *)
Revoke(r) ==
    LET i == reqs[r].token IN
    /\ reqs[r].kind = "logout" /\ reqs[r].phase = "sent"
    /\ tokens' = [j \in DOMAIN tokens |->
                    IF i # 0 /\ tokens[j].family = tokens[i].family
                    THEN [tokens[j] EXCEPT !.revoked = TRUE] ELSE tokens[j]]
    /\ reqs' = [reqs EXCEPT ![r].phase = "committed"]
    /\ UNCHANGED <<beta, client>>

-----------------------------------------------------------------------------
(* Answers. Only the refresh a page starts with sets its status to in; a   *)
(* failed one ends the session on the page, except when a call waits for   *)
(* it: that call alone fails.                                              *)
Failed(t) ==
    \/ status' = [status EXCEPT ![t] = "out"]
    \/ status[t] # "loading" /\ UNCHANGED status

Answered(r) == reqs' = [reqs EXCEPT ![r].phase = "answered"]

RefreshAnswered(r) ==
    LET t == reqs[r].tab IN
    /\ reqs[r].kind = "refresh" /\ flight[t] = r
    /\ flight' = [flight EXCEPT ![t] = 0]
    /\ \/ /\ reqs[r].phase = "committed"
          /\ jar' = reqs[r].child
          /\ status' = [status EXCEPT ![t] = IF @ = "loading" THEN "in" ELSE @]
       \/ /\ reqs[r].phase \in {"refused", "alarm"}
          /\ Failed(t)
          /\ UNCHANGED jar
    /\ Answered(r)
    /\ UNCHANGED <<tokens, beta>>

LogoutAnswered(r) ==
    LET t == reqs[r].tab IN
    /\ reqs[r].kind = "logout" /\ reqs[r].phase = "committed"
    /\ jar' = 0
    /\ status' = [status EXCEPT ![t] = "out"]
    /\ Answered(r)
    /\ UNCHANGED <<tokens, beta, flight>>

(* The connection breaks: the tab gives up, the server may still go on.   *)
Lose(t) ==
    LET r == flight[t] IN
    /\ r # 0
    /\ flight' = [flight EXCEPT ![t] = 0] /\ Failed(t)
    /\ tokens' = IF reqs[r].child # 0 THEN [tokens EXCEPT ![reqs[r].child].lost = TRUE] ELSE tokens
    /\ UNCHANGED <<beta, jar, reqs>>

(* The page is loaded again. *)
Reload(t) ==
    /\ flight[t] = 0 /\ status[t] # "loading"
    /\ status' = [status EXCEPT ![t] = "loading"]
    /\ UNCHANGED <<tokens, beta, jar, flight, reqs>>

TokenExpires(i) ==
    /\ Usable(i)
    /\ tokens' = [tokens EXCEPT ![i].expired = TRUE]
    /\ UNCHANGED <<beta, client, reqs>>

(* revoke_beta_access, invite_to_beta *)
SetBeta == beta' = ~beta /\ UNCHANGED <<tokens, client, reqs>>

Init ==
    /\ tokens = << >> /\ beta = TRUE /\ jar = 0 /\ reqs = << >>
    /\ status = [t \in Tabs |-> "loading"]
    /\ flight = [t \in Tabs |-> 0]

Next ==
    \/ \E t \in Tabs : Login(t) \/ Refresh(t) \/ Logout(t) \/ Lose(t) \/ Reload(t)
    \/ \E r \in DOMAIN reqs : Read(r) \/ Rotate(r) \/ Revoke(r) \/ RefreshAnswered(r)
                              \/ LogoutAnswered(r)
    \/ \E i \in DOMAIN tokens : TokenExpires(i)
    \/ SetBeta

Spec == Init /\ [][Next]_vars

-----------------------------------------------------------------------------
(* Properties. *)

(* Shape of the state. *)
TypeOK ==
    /\ jar \in 0 .. Len(tokens)
    /\ \A i \in DOMAIN tokens : tokens[i].parent \in 0 .. i - 1 /\ tokens[i].family \in 1 .. i
    /\ \A t \in Tabs : flight[t] \in 0 .. Len(reqs) /\ status[t] \in {"loading", "in", "out"}
    /\ \A r \in DOMAIN reqs : reqs[r].child \in 0 .. Len(tokens)

(* A token has a second heir only if its request had read the token before *)
(* the first heir was committed, and an heir of a revoked token likewise   *)
(* comes from a request under way: nothing is ever issued for a token that *)
(* was seen spent (rotate_refresh_token has no lock, so overlaps remain).  *)
HeirsOnlyByOverlap ==
    \A i, j \in DOMAIN tokens :
        (i < j /\ tokens[i].parent = tokens[j].parent /\ tokens[i].parent # 0)
            => tokens[j].read < i

(* A tab that waits for its refresh is told its token was spent only for a *)
(* reason it cannot help: the family was signed out, another tab spent the *)
(* token, or the answer that held its heir was lost. One tab never races   *)
(* itself (refreshInFlight).                                               *)
AlarmsHaveACause ==
    \A r \in DOMAIN reqs : (reqs[r].phase = "alarm" /\ flight[reqs[r].tab] = r) =>
        LET i == reqs[r].token IN
        \/ tokens[i].revoked
        \/ \E j \in DOMAIN tokens :
            tokens[j].parent = i /\ (tokens[j].lost \/ tokens[j].tab # reqs[r].tab)

(* No token is spent twice but by overlap, no tab alarmed without a cause. *)
RefreshIsSound == HeirsOnlyByOverlap /\ AlarmsHaveACause
=============================================================================
