-------------------------- MODULE EmailVerification --------------------------
(***************************************************************************)
(* How an account comes to have a verified address (app/email/service.py): *)
(* a request puts an address under users.pending_email and mails a link, a *)
(* resend mails another, opening a link promotes the address of ITS token, *)
(* a withdrawal clears everything.  Each is one transaction that reads the *)
(* user and the token without a lock and writes them later, so several may *)
(* overlap; what they write is held until they commit, and the others wait *)
(* for it.  The columns a transaction leaves as it read them are not       *)
(* written.                                                                *)
(***************************************************************************)
EXTENDS Integers, Sequences, FiniteSets, SequencesExt

CONSTANTS
    Users, Addresses,
    Requests,      \* requests the servers handle at a time
    None,          \* no address
    MaxTokens,     \* bound: links ever issued
    MaxBegun       \* bound: requests ever begun

VARIABLES
    account,       \* users: email (always verified), pending_email; how often it was withdrawn
    links,         \* email_verification_tokens, in the order of their commit
    cooling,       \* addresses a mail was asked for less than a cooldown ago
    op,            \* what each request is doing
    begun          \* requests begun

vars == <<account, links, cooling, op, begun>>

Outstanding(i) == ~links[i].consumed /\ ~links[i].invalidated
OutstandingOf(u) == {i \in DOMAIN links : links[i].user = u /\ Outstanding(i)}

Sends(o) == op[o].kind = "request"

(* What an open transaction has written, and so keeps from the others. *)
TokensHeld(o) ==
    (IF op[o].phase \in {"stamped", "flushed"} THEN op[o].snap ELSE {})
    \cup (IF op[o].kind = "verify" /\ op[o].phase \in {"scanned", "stamped", "flushed"}
          THEN {op[o].link} ELSE {})

WritesAccount(o) ==
    CASE Sends(o) -> op[o].seen.pending # op[o].address
      [] op[o].kind = "verify" -> TRUE
      [] op[o].kind = "delete" -> op[o].seen.email # None \/ op[o].seen.pending # None

HoldsAccount(o, u) == op[o].phase = "flushed" /\ op[o].user = u /\ WritesAccount(o)

-----------------------------------------------------------------------------
(* An operation begins with what it reads. *)
Idle == [kind |-> "none", phase |-> "idle"]

Begin(o, kind, u, a, i) ==
    /\ op[o] = Idle /\ begun < MaxBegun
    /\ begun' = begun + 1
    /\ op' = [op EXCEPT ![o] = [kind |-> kind, user |-> u, address |-> a, link |-> i,
                                phase |-> IF kind = "verify" THEN "found" ELSE "loaded",
                                seen |-> account[u], snap |-> {}]]

(* _enforce_send_throttle claims the address whether or not the mail goes. *)
Claim(a) == a \notin cooling /\ cooling' = cooling \cup {a}

RequestEmail(o, u, a) ==
    /\ account[u].email # a /\ Claim(a)
    /\ Begin(o, "request", u, a, 0)
    /\ UNCHANGED <<account, links>>

ResendVerification(o, u) ==
    LET a == account[u].pending IN
    /\ a # None /\ Claim(a)
    /\ Begin(o, "request", u, a, 0)
    /\ UNCHANGED <<account, links>>

(* A link another user opens, or one that is spent, is refused alike. *)
VerifyPending(o, i) ==                                      \* promotes what is pending now
    LET u == links[i].user IN
    /\ Outstanding(i) /\ ~links[i].expired /\ account[u].pending # None
    /\ Begin(o, "verify", u, account[u].pending, i)
    /\ UNCHANGED <<account, links, cooling>>

VerifyEmail(o, i) ==
    /\ Outstanding(i) /\ ~links[i].expired
    /\ Begin(o, "verify", links[i].user, links[i].email, i)
    /\ UNCHANGED <<account, links, cooling>>

(* Then verify_email reads the user's row, as it is by now. *)
LoadUser(o) ==
    /\ op[o].phase = "found"
    /\ op' = [op EXCEPT ![o].phase = "loaded", ![o].seen = account[op[o].user]]
    /\ UNCHANGED <<account, links, cooling, begun>>

DeleteEmail(o, u) ==
    /\ Begin(o, "delete", u, None, 0)
    /\ UNCHANGED <<account, links, cooling>>

-----------------------------------------------------------------------------
(* _invalidate_outstanding: the statement sees the tokens committed when   *)
(* it starts (after verify_email has stamped its own), waits for those     *)
(* held by others, and stamps the ones still outstanding then.             *)
Advance(o, phase) == op' = [op EXCEPT ![o].phase = phase]
End(o) == op' = [op EXCEPT ![o] = Idle]

Scan(o) ==
    /\ op[o].phase = "loaded"
    /\ op[o].kind = "verify" => \A p \in Requests \ {o} : op[o].link \notin TokensHeld(p)
    /\ op' = [op EXCEPT ![o].phase = "scanned",
                          ![o].snap = OutstandingOf(op[o].user) \ {op[o].link}]
    /\ UNCHANGED <<account, links, cooling, begun>>

Stamp(o) ==
    /\ op[o].phase = "scanned"
    /\ \A p \in Requests \ {o} : op[o].snap \cap TokensHeld(p) = {}
    /\ op' = [op EXCEPT ![o].phase = "stamped", ![o].snap = {i \in @ : Outstanding(i)}]
    /\ UNCHANGED <<account, links, cooling, begun>>

(* The flush: the user's row, and uq_users_email_verified.  A promotion    *)
(* waits for whoever may be taking or giving up the address, and is undone *)
(* when another account has it.                                            *)
FlushUnchecked(o) ==                                      \* without the unique index
    /\ op[o].phase = "stamped"
    /\ WritesAccount(o) => \A p \in Requests \ {o} : ~HoldsAccount(p, op[o].user)
    /\ Advance(o, "flushed")
    /\ UNCHANGED <<account, links, cooling, begun>>

Flush(o) ==
    LET u == op[o].user
        a == op[o].address
        Owners == {v \in Users \ {u} : account[v].email = a}
    IN
    /\ op[o].phase = "stamped"
    /\ WritesAccount(o) => \A p \in Requests \ {o} : ~HoldsAccount(p, u)
    /\ \/ op[o].kind # "verify" /\ Advance(o, "flushed")
       \/ /\ op[o].kind = "verify"
          /\ \A p \in Requests : \A v \in Users \ {u} :
                HoldsAccount(p, v) =>
                    account[v].email # a /\ ~(op[p].kind = "verify" /\ op[p].address = a)
          /\ IF Owners = {} THEN Advance(o, "flushed") ELSE End(o)
    /\ UNCHANGED <<account, links, cooling, begun>>

-----------------------------------------------------------------------------
Stamped(o) ==
    [i \in DOMAIN links |->
        [links[i] EXCEPT !.invalidated = @ \/ i \in op[o].snap,
                         !.consumed = @ \/ i = op[o].link]]

(* Only the columns that differ from what was read. *)
Written(o) ==
    LET was == account[op[o].user]
        seen == op[o].seen
        a == op[o].address
    IN CASE Sends(o) -> [was EXCEPT !.pending = IF seen.pending # a THEN a ELSE @]
         [] op[o].kind = "verify" ->
                [was EXCEPT !.email = IF seen.email # a THEN a ELSE @,
                            !.pending = IF seen.pending # None THEN None ELSE @]
         [] op[o].kind = "delete" ->
                [was EXCEPT !.email = IF seen.email # None THEN None ELSE @,
                            !.pending = IF seen.pending # None THEN None ELSE @,
                            !.withdrawals = @ + 1]

(* A mail leaves before the commit that makes its link good. *)
Commit(o) ==
    LET u == op[o].user IN
    /\ op[o].phase = "flushed"
    /\ Sends(o) => Len(links) < MaxTokens
    /\ links' = IF Sends(o)
                THEN Append(Stamped(o), [user |-> u, email |-> op[o].address, consumed |-> FALSE,
                                         invalidated |-> FALSE, expired |-> FALSE,
                                         after |-> account[u].withdrawals])
                ELSE Stamped(o)
    /\ account' = [account EXCEPT ![u] = Written(o)]
    /\ End(o)
    /\ UNCHANGED <<cooling, begun>>

(* The mail is not taken, the database ends a deadlock, the process dies:  *)
(* all of it is undone, but for the claim on the address.                  *)
Fail(o) ==
    /\ op[o] # Idle
    /\ End(o)
    /\ UNCHANGED <<account, links, cooling, begun>>

LinkExpires(i) ==
    /\ Outstanding(i) /\ ~links[i].expired
    /\ links' = [links EXCEPT ![i].expired = TRUE]
    /\ UNCHANGED <<account, cooling, op, begun>>

CoolOff(a) ==
    /\ a \in cooling /\ cooling' = cooling \ {a}
    /\ UNCHANGED <<account, links, op, begun>>

Init ==
    /\ account = [u \in Users |-> [email |-> None, pending |-> None, withdrawals |-> 0]]
    /\ links = << >> /\ cooling = {} /\ begun = 0
    /\ op = [o \in Requests |-> Idle]

Next ==
    \/ \E o \in Requests :
        \/ \E u \in Users : \/ \E a \in Addresses : RequestEmail(o, u, a)
                            \/ ResendVerification(o, u) \/ DeleteEmail(o, u)
        \/ \E i \in DOMAIN links : VerifyEmail(o, i)
        \/ LoadUser(o) \/ Scan(o) \/ Stamp(o) \/ Flush(o) \/ Commit(o) \/ Fail(o)
    \/ \E i \in DOMAIN links : LinkExpires(i)
    \/ \E a \in Addresses : CoolOff(a)

Spec == Init /\ [][Next]_vars

-----------------------------------------------------------------------------
(* Properties. *)

(* Shape of the state; the index holds one account to an address. *)
TypeOK ==
    /\ \A u \in Users : {account[u].email, account[u].pending} \subseteq Addresses \cup {None}
    /\ cooling \subseteq Addresses
    /\ \A o \in Requests : op[o] # Idle => /\ op[o].snap \subseteq DOMAIN links
                                           /\ op[o].link \in 0 .. Len(links)

(* An address is verified on one account only, and that account's own user *)
(* opened a link that was sent to that very address, however requests for  *)
(* other addresses, resends and withdrawals overlapped (verify_email).     *)
AddressBelongsToItsProver ==
    \A u \in Users : account[u].email # None =>
        /\ \A v \in Users \ {u} : account[v].email # account[u].email
        /\ \E i \in DOMAIN links : /\ links[i].consumed
                                   /\ links[i].user = u /\ links[i].email = account[u].email

=============================================================================
