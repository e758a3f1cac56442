-------------------------- MODULE UserAccountProofs --------------------------
(***************************************************************************)
(* Proofs about UserAccount, for any number and mix of requests and any    *)
(* limits: whoever is told of a registration keeps the account, and what a *)
(* revocation whose calls succeeded met is gone, but for what an           *)
(* overlapping request wrote back or created.                              *)
(*                                                                         *)
(* The first needs that one registration at most has made the account and  *)
(* may take it back.  The second needs that a session id is used for one   *)
(* session only, and that the index lists every live session no request    *)
(* wrote back or created past a revocation.                                *)
(***************************************************************************)
EXTENDS UserAccount, TLAPS

Values == Ids \cup {none, "new", "old"} \cup SUBSET Ids

ReqType == [Requests -> [pc : Pcs, sid : Ids \cup {none}, val : Values,
                         reply : Replies \cup {none}]]

OtpIds == {q \in Requests : AsksOtp(q)}
SessionKinds == {"refresh", "getSessions", "revokeSession", "logout"}

(* Every place belongs to requests of some kinds.                          *)
PlaceFits(r) ==
  /\ req[r].pc \in {"find", "incr", "ttl", "ttlLimited", "refused", "store", "map", "clear", "data",
                    "publish", "rollback", "rollbackMap"} => AsksOtp(r)
  /\ req[r].pc \in {"attempt", "lock", "compare", "matched", "cleanup", "cleanupMap"} => Verifies(r)
  /\ req[r].pc \in {"registration", "create", "session", "undo"} => kind[r] = "verifyOtp"
  /\ req[r].pc \in {"read", "issue"} => kind[r] = "verifyResetOtp"
  /\ req[r].pc \in {"loginSession", "welcome"} => kind[r] = "login"
  /\ req[r].pc \in {"findById", "rotate"} => kind[r] = "refresh"
  /\ req[r].pc \in {"touch", "handler"} => kind[r] \in {"getSessions", "revokeSession"}
  /\ req[r].pc = "srem" => kind[r] = "getSessions"
  /\ req[r].pc \in {"delSession", "delEntry"} => kind[r] \in {"refresh", "revokeSession", "logout"}
  /\ req[r].pc \in {"members", "delSessions", "delIndex"} =>
       kind[r] \in {"refresh", "logoutAll", "resetPassword"}
  /\ req[r].pc \in {"update", "delToken"} => kind[r] = "resetPassword"

(* What a request remembers is of the sort its place needs.                *)
MemoryFits(r) ==
  /\ AsksOtp(r) => req[r].pc \in {"start", "find", "refused", "done"} \/ req[r].sid \in OtpIds
  /\ Verifies(r) => req[r].pc \in {"start", "done"} \/ req[r].sid \in OtpIds
  /\ kind[r] \in SessionKinds => req[r].pc \in {"start", "done"} \/ req[r].sid \in Ids
  /\ req[r].pc = "create" => req[r].val \in Ids
  /\ req[r].pc = "touch" => req[r].val \in Ids
  /\ req[r].pc \in {"attempt", "compare"} => req[r].val \in Ids
  /\ req[r].pc \in {"srem", "delSessions"} => req[r].val \subseteq Ids

(* Answers that later requests build on.                                   *)
AnswerFits(r) ==
  /\ req[r].reply # none => req[r].pc = "done"
  /\ req[r].reply = "sent" => AsksOtp(r) /\ req[r].sid \in OtpIds
  /\ req[r].reply = "registered" => kind[r] = "verifyOtp" /\ req[r].sid \in OtpIds
  /\ req[r].reply = "loggedIn" => kind[r] = "login"
  /\ req[r].reply = "refreshed" => kind[r] = "refresh" /\ req[r].sid \in Ids

(* r has made the account, and may still take it back.                     *)
Owner(r) == /\ kind[r] = "verifyOtp"
            /\ req[r].pc \in {"session", "undo", "cleanup", "cleanupMap"} \/ req[r].reply = "registered"

OwnerHasAccount(r) == Owner(r) => user # none
OneOwner == \A p, q \in Requests : Owner(p) /\ Owner(q) => p = q

(* r has, or has had, to do with session s.                                *)
Names(r, s) ==
  \/ s \in doomed[r]
  \/ kind[r] \in SessionKinds /\ req[r].sid = s
  \/ req[r].pc = "srem" /\ s \in req[r].val
  \/ req[r].reply = "registered" /\ req[r].sid = s

Unused(s) == sess[s] = none /\ s \notin index /\ \A q \in Requests : ~Names(q, s)

(* A session id is new when its session is created: that of a registration *)
(* until there is an account to stay, that of a login until the login.     *)
NoneRegistered == user = none => \A s \in OtpIds : Unused(s)
RegistrationIsNew(r) == req[r].pc \in {"session", "undo"} => \A s \in OtpIds : Unused(s)
LoginIsNew(r) == kind[r] = "login" /\ req[r].pc \in {"start", "loginSession"} => Unused(r)

(* r has deleted what it met, or says so.                                  *)
Cleared(r) == req[r].pc \in {"delEntry", "delIndex", "delToken"} \/ req[r].reply \in {"loggedOut", "reset"}

(* Live sessions are on the index and on the lists read from it, but for   *)
(* those written back or created while a revocation ran.                   *)
IndexComplete == Live \subseteq index \cup raced
RevocationGoesOn(r) ==
  /\ Cleared(r) /\ r \notin logged => doomed[r] \cap Live \subseteq raced
  /\ req[r].pc = "delEntry" => doomed[r] = {req[r].sid} /\ doomed[r] \cap Live \subseteq raced
  /\ req[r].pc = "delSessions" => Live \subseteq req[r].val \cup raced
  /\ req[r].pc = "delIndex" => Live \subseteq raced
  /\ req[r].pc = "srem" => req[r].val \cap Live \subseteq raced

Fits(r) == PlaceFits(r) /\ MemoryFits(r) /\ AnswerFits(r)

(* The stores: the part of TypeOK that is not about requests, and the      *)
(* owner of the email's OTP session.                                       *)
StoresTyped ==
  /\ kind \in Scenarios /\ known \in BOOLEAN
  /\ user \in Ids \cup {none} /\ otpSession \in OtpIds \cup {none}
  /\ rate \in [n : 0..(RateMax + 1), ttl : BOOLEAN]
  /\ otp \in [Ids -> Ids \cup {none}] /\ regData \in [Ids -> Ids \cup {none}]
  /\ attempts \in [Ids -> 0..(AttemptLimit + 1)]
  /\ resetFor \subseteq Ids /\ token \subseteq Ids
  /\ sess \in [Ids -> Ids \cup {none}] /\ index \subseteq Ids
  /\ raced \subseteq Ids /\ doomed \in [Requests -> SUBSET Ids] /\ logged \subseteq Requests
  /\ published \subseteq Requests /\ mailed \subseteq published
  /\ lease \in [Ids -> {none, "reserved", "processed"}]
  /\ faults \in 0..MaxFaults

RequestsFit ==
  /\ req \in ReqType
  /\ \A r \in Requests : Fits(r) /\ OwnerHasAccount(r)
  /\ OneOwner /\ NoneRegistered
  /\ \A r \in Requests : RegistrationIsNew(r) /\ LoginIsNew(r) /\ RevocationGoesOn(r)
  /\ IndexComplete

AccountInv == StoresTyped /\ RequestsFit

-----------------------------------------------------------------------------
(* What Goto, GotoWith and Reply do to the requests.                       *)

Becomes(r, pc, sid, val, reply) ==
  /\ req' \in ReqType
  /\ \A q \in Requests \ {r} : req'[q] = req[q]
  /\ req'[r].pc = pc /\ req'[r].sid = sid /\ req'[r].val = val
  /\ req'[r].reply = reply

LEMMA GotoEffect ==
  ASSUME req \in ReqType, NEW r \in Requests, NEW pc \in Pcs, Goto(r, pc)
  PROVE  Becomes(r, pc, req[r].sid, req[r].val, req[r].reply)
<1> DEFINE Rec == [pc : Pcs, sid : Ids \cup {none}, val : Values,
                   reply : Replies \cup {none}]
<1>1. req \in [Requests -> Rec] BY DEF ReqType
<1>2. req' = [req EXCEPT ![r] = [req[r] EXCEPT !.pc = pc]] BY DEF Goto
<1>3. [req[r] EXCEPT !.pc = pc] \in Rec BY <1>1
<1>4. req' \in ReqType BY <1>1, <1>2, <1>3 DEF ReqType
<1> QED BY <1>1, <1>2, <1>4 DEF Becomes

LEMMA GotoWithEffect ==
  ASSUME req \in ReqType, NEW r \in Requests, NEW pc \in Pcs,
         NEW sid \in Ids \cup {none}, NEW val \in Values, GotoWith(r, pc, sid, val)
  PROVE  Becomes(r, pc, sid, val, req[r].reply)
<1> DEFINE Rec == [pc : Pcs, sid : Ids \cup {none}, val : Values,
                   reply : Replies \cup {none}]
           new == [req[r] EXCEPT !.pc = pc, !.sid = sid, !.val = val]
<1>1. req \in [Requests -> Rec] BY DEF ReqType
<1>2. req' = [req EXCEPT ![r] = new] BY DEF GotoWith
<1>3. new \in Rec /\ new.pc = pc /\ new.sid = sid /\ new.val = val
      /\ new.reply = req[r].reply
  BY <1>1
<1> HIDE DEF new
<1>4. req' \in ReqType BY <1>1, <1>2, <1>3 DEF ReqType
<1> QED BY <1>1, <1>2, <1>3, <1>4 DEF Becomes

LEMMA ReplyEffect ==
  ASSUME req \in ReqType, NEW r \in Requests, NEW answer \in Replies, Reply(r, answer)
  PROVE  Becomes(r, "done", req[r].sid, req[r].val, answer)
<1> DEFINE Rec == [pc : Pcs, sid : Ids \cup {none}, val : Values,
                   reply : Replies \cup {none}]
           new == [req[r] EXCEPT !.pc = "done", !.reply = answer]
<1>1. req \in [Requests -> Rec] BY DEF ReqType
<1>2. req' = [req EXCEPT ![r] = new] BY <1>1 DEF Reply
<1>0. "done" \in Pcs BY DEF Pcs
<1>3. new \in Rec /\ new.pc = "done" /\ new.sid = req[r].sid /\ new.val = req[r].val
      /\ new.reply = answer
  BY <1>0, <1>1
<1> HIDE DEF new
<1>4. req' \in ReqType BY <1>1, <1>2, <1>3 DEF ReqType
<1> QED BY <1>1, <1>2, <1>3, <1>4 DEF Becomes

-----------------------------------------------------------------------------
(* Steps of one request that leave the account and the sessions alone.     *)

(* Ids under which a session may still be created.                         *)
NewIds ==
  {s \in OtpIds : user = none \/ \E q \in Requests : req[q].pc \in {"session", "undo"}}
  \cup {q \in Requests : kind[q] = "login" /\ req[q].pc \in {"start", "loginSession"}}

(* The other requests stay where they are.                                 *)
LEMMA OthersStay ==
  ASSUME RequestsFit, UNCHANGED kind, NEW q \in Requests, req'[q] = req[q]
  PROVE  Fits(q)' /\ (Owner(q)' <=> Owner(q)) /\ (Cleared(q)' <=> Cleared(q))
<1>1. OtpIds' = OtpIds BY DEF OtpIds, AsksOtp
<1>2. Fits(q)'
  BY <1>1 DEF RequestsFit, Fits, PlaceFits, MemoryFits, AnswerFits, AsksOtp, Verifies
<1> QED BY <1>2 DEF Owner, Cleared

(* A step that leaves the sessions alone is harmless if the request still  *)
(* fits its place, names no id that has to be unused, and makes an account *)
(* or takes one back only where no other registration has.                 *)
LEMMA AccountMoves ==
  ASSUME StoresTyped, RequestsFit, NEW r \in Requests,
         UNCHANGED <<kind, sessVars>>,
         req' \in ReqType, \A q \in Requests \ {r} : req'[q] = req[q],
         Fits(r)', RevocationGoesOn(r)',
         Owner(r)' => user' # none /\ (Owner(r) \/ \A q \in Requests : ~Owner(q)),
         \/ user' = none => user = none
         \/ Owner(r) /\ ~Owner(r)' /\ req[r].pc = "undo",
         \A s \in NewIds : Names(r, s)' => Names(r, s) \/ ~Unused(s),
         req'[r].pc \in {"session", "undo"} =>
           req[r].pc \in {"session", "undo"} \/ user = none,
         kind[r] = "login" /\ req'[r].pc \in {"start", "loginSession"}
           => req[r].pc \in {"start", "loginSession"}
  PROVE  RequestsFit'
<1>1. \A s \in NewIds : Unused(s) => Unused(s)'
  <2> SUFFICES ASSUME NEW s \in NewIds, Unused(s) PROVE Unused(s)' OBVIOUS
  <2>1. ASSUME NEW q \in Requests PROVE ~Names(q, s)'
    <3>1. CASE q = r BY <3>1 DEF Unused
    <3>2. CASE q # r BY <3>2 DEF Unused, Names, sessVars
    <3> QED BY <3>1, <3>2
  <2> QED BY <2>1 DEF Unused, sessVars
<1>2. OtpIds' = OtpIds /\ Requests \subseteq Ids
      /\ Live' = Live
  BY DEF OtpIds, AsksOtp, Ids, Live, sessVars
<1>3. ASSUME NEW q \in Requests \ {r}
      PROVE  /\ Fits(q)' /\ RevocationGoesOn(q)'
             /\ Owner(q)' <=> Owner(q)
             /\ RegistrationIsNew(q)' /\ LoginIsNew(q)'
  <2>1. req'[q] = req[q] /\ q \in Ids BY <1>2
  <2>2. Fits(q)' /\ (Owner(q)' <=> Owner(q)) BY <2>1, OthersStay
  <2>4. RevocationGoesOn(q)'
    BY <2>1, <1>2 DEF RequestsFit, RevocationGoesOn, Cleared, sessVars
  <2>5. RegistrationIsNew(q)'
    BY <1>1, <1>2, <2>1 DEF RequestsFit, RegistrationIsNew, NoneRegistered, NewIds
  <2>6. LoginIsNew(q)'
    BY <1>1, <2>1 DEF RequestsFit, LoginIsNew, NewIds
  <2> QED BY <2>2, <2>4, <2>5, <2>6
<1>4. RegistrationIsNew(r)' /\ LoginIsNew(r)'
  <2>1. RegistrationIsNew(r)'
    BY <1>1, <1>2 DEF RequestsFit, RegistrationIsNew, NoneRegistered, NewIds
  <2>2. LoginIsNew(r)'
    BY <1>1, <1>2 DEF RequestsFit, LoginIsNew, NewIds
  <2> QED BY <2>1, <2>2
<1>5. OneOwner'
  BY <1>3 DEF RequestsFit, OneOwner
<1>6. ASSUME NEW q \in Requests, Owner(q)'
      PROVE  user' # none
  <2>1. CASE q = r BY <1>6, <2>1
  <2>2. CASE q # r
    <3>1. Owner(q) /\ user # none
      BY <1>3, <1>6, <2>2 DEF RequestsFit, OwnerHasAccount
    <3> QED BY <2>2, <3>1 DEF RequestsFit, OneOwner
  <2> QED BY <2>1, <2>2
<1>7. NoneRegistered'
  BY <1>1, <1>2 DEF RequestsFit, NoneRegistered, RegistrationIsNew, NewIds
<1>8. IndexComplete'
  BY <1>2 DEF RequestsFit, IndexComplete, sessVars
<1>9. \A q \in Requests : OwnerHasAccount(q)'
  BY <1>6 DEF OwnerHasAccount
<1> QED BY <1>3, <1>4, <1>5, <1>7, <1>8, <1>9 DEF RequestsFit

(* The same for a step that leaves the account alone, too.                 *)
LEMMA RequestMoves ==
  ASSUME StoresTyped, RequestsFit, NEW r \in Requests,
         UNCHANGED <<kind, user, sessVars>>,
         req' \in ReqType, \A q \in Requests \ {r} : req'[q] = req[q],
         Fits(r)', RevocationGoesOn(r)',
         Owner(r)' => Owner(r),
         \A s \in NewIds : Names(r, s)' => Names(r, s) \/ ~Unused(s),
         req'[r].pc \in {"session", "undo"} => req[r].pc \in {"session", "undo"},
         kind[r] = "login" /\ req'[r].pc \in {"start", "loginSession"}
           => req[r].pc \in {"start", "loginSession"}
  PROVE  RequestsFit'
<1>1. Owner(r)' => user' # none BY DEF RequestsFit, OwnerHasAccount
<1> QED BY <1>1, AccountMoves

PlainReplies == Replies \ {"sent", "registered", "loggedIn", "refreshed", "loggedOut", "reset"}

(* A request may end with any answer that nothing later builds on.         *)
LEMMA Ends ==
  ASSUME StoresTyped, RequestsFit, NEW r \in Requests, NEW answer \in PlainReplies,
         UNCHANGED <<kind, user, sessVars>>, Reply(r, answer)
  PROVE  RequestsFit'
<1>1. Becomes(r, "done", req[r].sid, req[r].val, answer)
  BY ReplyEffect DEF RequestsFit, PlainReplies
<1>2. Fits(r)'
  BY <1>1 DEF Becomes, RequestsFit, Fits, PlaceFits, MemoryFits, AnswerFits, PlainReplies
<1>3. RevocationGoesOn(r)' /\ ~Owner(r)'
  BY <1>1 DEF Becomes, RequestsFit, RevocationGoesOn, Cleared, Owner, PlainReplies,
              sessVars
<1>4. \A s \in NewIds : Names(r, s)' => Names(r, s)
  BY <1>1 DEF Becomes, Names, PlainReplies, sessVars
<1> QED BY <1>1, <1>2, <1>3, <1>4, RequestMoves DEF Becomes

OtpPlaces == {"find", "incr", "ttl", "ttlLimited", "refused", "store", "map", "clear", "data",
              "publish", "rollback", "rollbackMap"}

(* A request for an OTP goes on to another of its places, or has sent one. *)
LEMMA AskerMoves ==
  ASSUME StoresTyped, RequestsFit, NEW r \in Requests, AsksOtp(r),
         UNCHANGED <<kind, user, sessVars>>,
         NEW pc \in OtpPlaces \cup {"start", "done"}, NEW sid, NEW val,
         NEW answer \in {none, "sent"},
         Becomes(r, pc, sid, val, answer),
         sid \in OtpIds \/ (pc \in {"start", "find", "refused"} /\ answer = none),
         answer = "sent" <=> pc = "done"
  PROVE  RequestsFit'
<1>0. none \notin {"sent", "registered", "loggedIn", "refreshed"}
  BY NoneAssumption DEF Replies
<1>1. Fits(r)'
  <2>1. PlaceFits(r)' BY DEF Becomes, PlaceFits, OtpPlaces, AsksOtp
  <2>2. OtpIds' = OtpIds BY DEF OtpIds, AsksOtp
  <2>3. MemoryFits(r)'
    BY <2>2 DEF Becomes, MemoryFits, OtpPlaces, AsksOtp, Verifies, SessionKinds
  <2>4. AnswerFits(r)' BY <1>0, <2>2 DEF Becomes, AnswerFits, AsksOtp
  <2> QED BY <2>1, <2>3, <2>4 DEF Fits
<1>2. RevocationGoesOn(r)' /\ ~Owner(r)'
  BY NoneAssumption DEF Becomes, RevocationGoesOn, Cleared, Owner, OtpPlaces, AsksOtp,
              sessVars, Replies
<1>3. \A s \in NewIds : Names(r, s)' => Names(r, s)
  BY NoneAssumption DEF Becomes, Names, AsksOtp, SessionKinds, OtpPlaces, sessVars, Replies
<1>4. req'[r].pc \notin {"session", "undo"} /\ kind[r] # "login"
  BY DEF Becomes, OtpPlaces, AsksOtp
<1> QED BY <1>1, <1>2, <1>3, <1>4, RequestMoves DEF Becomes

(* A verification goes on, short of the account.                           *)
LEMMA VerifierMoves ==
  ASSUME StoresTyped, RequestsFit, NEW r \in Requests, Verifies(r), req[r].reply = none,
         UNCHANGED <<kind, user, sessVars>>,
         NEW pc \in {"read", "attempt", "lock", "compare", "matched", "registration", "create",
                     "undo", "cleanup", "cleanupMap", "issue"},
         NEW sid \in OtpIds, NEW val,
         Becomes(r, pc, sid, val, none),
         pc \in {"create", "attempt", "compare"} => val \in Ids,
         pc \in {"registration", "create"} => kind[r] = "verifyOtp",
         pc \in {"read", "issue"} => kind[r] = "verifyResetOtp",
         pc = "undo" => req[r].pc = "session",
         pc \in {"cleanup", "cleanupMap"} => kind[r] = "verifyResetOtp" \/ req[r].pc = "cleanup"
  PROVE  RequestsFit'
<1>0. none \notin {"registered", "loggedOut", "reset", "sent", "loggedIn", "refreshed"}
  BY NoneAssumption DEF Replies
<1>1. Fits(r)'
  <2>0. pc = "undo" => kind[r] = "verifyOtp"
    BY DEF RequestsFit, Fits, PlaceFits
  <2>1. PlaceFits(r)'
    BY <2>0 DEF Becomes, PlaceFits, Verifies, AsksOtp
  <2>2. MemoryFits(r)'
    BY DEF Becomes, MemoryFits, Verifies, AsksOtp, SessionKinds, OtpIds
  <2>3. AnswerFits(r)'
    BY <1>0 DEF Becomes, AnswerFits
  <2> QED BY <2>1, <2>2, <2>3 DEF Fits
<1>2. RevocationGoesOn(r)'
  BY <1>0 DEF Becomes, RevocationGoesOn, Cleared, sessVars
<1>3. Owner(r)' => Owner(r)
  BY <1>0 DEF Becomes, RequestsFit, Fits, PlaceFits, Owner, Verifies
<1>4. \A s \in NewIds : Names(r, s)' => Names(r, s)
  BY <1>0 DEF Becomes, Names, Verifies, SessionKinds, sessVars
<1>5. /\ req'[r].pc \in {"session", "undo"} => req[r].pc \in {"session", "undo"}
      /\ kind[r] # "login"
  BY DEF Becomes, Verifies
<1> QED BY <1>1, <1>2, <1>3, <1>4, <1>5, RequestMoves DEF Becomes

-----------------------------------------------------------------------------
(* Steps that change the sessions.                                         *)

(* A session is created under an id that was unused: that of a login, or   *)
(* that of the one registration that has made the account.                 *)
LEMMA SessionCreated ==
  ASSUME StoresTyped, RequestsFit, NEW r \in Requests, NEW s \in Ids,
         UNCHANGED <<kind, user, doomed, logged>>, createAuthSession(r, s),
         NEW pc, Becomes(r, pc, req[r].sid, req[r].val, none),
         \/ req[r].pc = "session" /\ s = req[r].sid /\ pc = "cleanup"
         \/ req[r].pc = "loginSession" /\ s = r /\ pc = "welcome"
  PROVE  RequestsFit'
<1>0. none \notin {"registered", "loggedOut", "reset", "sent", "loggedIn", "refreshed"}
  BY NoneAssumption DEF Replies
<1>1. OtpIds \subseteq Ids /\ OtpIds' = OtpIds /\ Requests \subseteq Ids
  BY DEF OtpIds, AsksOtp, Ids
<1>2. /\ \/ /\ kind[r] = "verifyOtp" /\ Owner(r) /\ user # none /\ s \in OtpIds
            /\ pc = "cleanup"
         \/ kind[r] = "login" /\ s \notin OtpIds /\ s = r /\ pc = "welcome"
      /\ Unused(s)
  <2>1. CASE req[r].pc = "session"
    <3>1. Fits(r) /\ kind[r] = "verifyOtp" BY <2>1 DEF RequestsFit, Fits, PlaceFits
    <3>2. s \in OtpIds BY <2>1, <3>1 DEF Fits, MemoryFits, Verifies
    <3>3. Owner(r) BY <2>1, <3>1 DEF Owner
    <3> QED BY <2>1, <3>1, <3>2, <3>3 DEF RequestsFit, RegistrationIsNew, OwnerHasAccount
  <2>2. CASE req[r].pc = "loginSession"
    <3>1. kind[r] = "login" BY <2>2 DEF RequestsFit, Fits, PlaceFits
    <3>2. s = r /\ r \notin OtpIds BY <2>2, <3>1 DEF OtpIds, AsksOtp
    <3> QED BY <2>2, <3>1, <3>2 DEF RequestsFit, LoginIsNew
  <2> QED BY <2>1, <2>2
<1>3. /\ sess' = [sess EXCEPT ![s] = r] /\ index' = index \cup {s}
      /\ raced' = IF Revoking THEN raced \cup {s} ELSE raced
      /\ Live' = Live \cup {s} /\ raced \subseteq raced'
  <2>1. r # none BY NoneAssumption
  <2> QED BY <1>1, <2>1 DEF createAuthSession, Live, StoresTyped
<1>4. ASSUME NEW i \in Ids, Unused(i), i # s
      PROVE  Unused(i)'
  <2>1. ASSUME NEW q \in Requests PROVE ~Names(q, i)'
    <3>1. CASE q = r
      BY <1>0, <1>2, <1>4, <3>1 DEF Unused, Names, Becomes, SessionKinds
    <3>2. CASE q # r
      BY <1>4, <3>2 DEF Unused, Names, Becomes
    <3> QED BY <3>1, <3>2
  <2> QED BY <1>3, <1>4, <2>1 DEF Unused, StoresTyped
<1>5. ASSUME NEW q \in Requests \ {r}
      PROVE  /\ Fits(q)' /\ RevocationGoesOn(q)'
             /\ Owner(q)' <=> Owner(q)
             /\ RegistrationIsNew(q)' /\ LoginIsNew(q)'
  <2>1. req'[q] = req[q] /\ q \in Ids BY <1>1 DEF Becomes
  <2>2. Fits(q)' /\ (Owner(q)' <=> Owner(q)) /\ (Cleared(q)' <=> Cleared(q))
    BY <2>1, OthersStay
  <2>4. s \notin doomed[q] /\ (req[q].pc = "srem" => s \notin req[q].val)
    BY <1>2 DEF Unused, Names
  <2>5. req[q].pc \in {"delSessions", "delIndex"} => s \in raced'
    BY <1>3 DEF Revoking
  <2>6. RevocationGoesOn(q)'
    BY <1>3, <2>1, <2>2, <2>4, <2>5 DEF RequestsFit, RevocationGoesOn
  <2>7. RegistrationIsNew(q)'
    <3> SUFFICES ASSUME req[q].pc \in {"session", "undo"}, NEW i \in OtpIds
                 PROVE  Unused(i)'
      BY <1>1, <2>1 DEF RegistrationIsNew
    <3>1. Unused(i) BY DEF RequestsFit, RegistrationIsNew
    <3>2. Owner(q) BY DEF Owner, RequestsFit, Fits, PlaceFits
    <3>3. s \notin OtpIds BY <1>2, <3>2 DEF RequestsFit, OneOwner
    <3> QED BY <1>1, <1>4, <3>1, <3>3
  <2>8. LoginIsNew(q)'
    <3> SUFFICES ASSUME kind[q] = "login", req[q].pc \in {"start", "loginSession"}
                 PROVE  Unused(q)'
      BY <2>1 DEF LoginIsNew
    <3>1. Unused(q) BY DEF RequestsFit, LoginIsNew
    <3>2. q \notin OtpIds BY DEF OtpIds, AsksOtp
    <3>3. q # s BY <1>2, <3>2
    <3> QED BY <1>4, <2>1, <3>1, <3>3
  <2> QED BY <2>2, <2>6, <2>7, <2>8
<1>6. Fits(r)'
  <2>1. Fits(r) BY DEF RequestsFit
  <2>2. PlaceFits(r)' BY <1>2 DEF Becomes, PlaceFits, Verifies
  <2>3. MemoryFits(r)'
    BY <1>1, <1>2, <2>1 DEF Becomes, Fits, MemoryFits, Verifies, AsksOtp, SessionKinds
  <2>4. AnswerFits(r)' BY <1>0 DEF Becomes, AnswerFits
  <2> QED BY <2>2, <2>3, <2>4 DEF Fits
<1>7. RevocationGoesOn(r)'
  BY <1>0 DEF Becomes, RequestsFit, RevocationGoesOn, Cleared
<1>8. /\ Owner(r)' => Owner(r)
      /\ RegistrationIsNew(r)' /\ LoginIsNew(r)'
  BY <1>0, <1>2 DEF Becomes, Owner, RegistrationIsNew, LoginIsNew
<1>9. OneOwner' /\ \A q \in Requests : OwnerHasAccount(q)'
  BY <1>5, <1>8 DEF RequestsFit, OneOwner, OwnerHasAccount
<1>10. NoneRegistered'
  BY <1>1, <1>2, <1>4 DEF RequestsFit, NoneRegistered
<1>11. IndexComplete'
  BY <1>3 DEF RequestsFit, IndexComplete
<1>12. req' \in ReqType BY DEF Becomes
<1> QED BY <1>5, <1>6, <1>7, <1>8, <1>9, <1>10, <1>11, <1>12 DEF RequestsFit

(* A session is written back.  If it was deleted since the read, it counts *)
(* as raced.                                                               *)
LEMMA SessionRewritten ==
  ASSUME StoresTyped, RequestsFit, NEW r \in Requests, NEW t \in Ids,
         UNCHANGED <<kind, user>>, rewrite(req[r].sid, t),
         \/ /\ req[r].pc = "rotate"
            /\ Becomes(r, "done", req[r].sid, req[r].val, "refreshed")
         \/ /\ req[r].pc = "touch"
            /\ Becomes(r, "handler", req[r].sid, req[r].val, none)
  PROVE  RequestsFit'
<1>0. none \notin {"registered", "loggedOut", "reset", "sent", "loggedIn", "refreshed"}
  BY NoneAssumption DEF Replies
<1> DEFINE s == req[r].sid
<1>1. OtpIds \subseteq Ids /\ OtpIds' = OtpIds /\ Requests \subseteq Ids
  BY DEF OtpIds, AsksOtp, Ids
<1>2. /\ kind[r] \in SessionKinds /\ kind[r] # "logout" /\ s \in Ids
      /\ req[r].pc = "rotate" => kind[r] = "refresh"
      /\ req[r].pc = "touch" => kind[r] \in {"getSessions", "revokeSession"}
  <2>1. PlaceFits(r) /\ MemoryFits(r) BY DEF RequestsFit, Fits
  <2> QED BY <2>1 DEF PlaceFits, MemoryFits, SessionKinds
<1>3. /\ sess' = [sess EXCEPT ![s] = t] /\ index' = index /\ doomed' = doomed /\ logged' = logged
      /\ raced \subseteq raced' /\ (sess[s] = none => s \in raced')
  BY DEF rewrite
<1>4. Live' \subseteq Live \cup raced' /\ Live \subseteq Live'
  <2>1. t # none BY NoneAssumption DEF Ids
  <2>2. Live' = Live \cup {s} BY <1>2, <1>3, <2>1 DEF Live, StoresTyped
  <2>3. s \in Live \/ s \in raced'
    BY <1>2, <1>3 DEF Live
  <2> QED BY <2>2, <2>3
<1>5. ASSUME NEW i \in Ids, Unused(i)
      PROVE  Unused(i)'
  <2>1. i # s BY <1>2, <1>5 DEF Unused, Names
  <2>2. ASSUME NEW q \in Requests PROVE ~Names(q, i)'
    <3>1. CASE q = r
      BY <1>0, <1>3, <1>5, <2>1, <3>1 DEF Unused, Names, Becomes, SessionKinds
    <3>2. CASE q # r
      BY <1>3, <1>5, <3>2 DEF Unused, Names, Becomes
    <3> QED BY <3>1, <3>2
  <2> QED BY <1>3, <1>5, <2>1, <2>2 DEF Unused, StoresTyped
<1>6. ASSUME NEW q \in Requests \ {r}
      PROVE  /\ Fits(q)' /\ RevocationGoesOn(q)'
             /\ Owner(q)' <=> Owner(q)
             /\ RegistrationIsNew(q)' /\ LoginIsNew(q)'
  <2>1. req'[q] = req[q] /\ q \in Ids BY <1>1 DEF Becomes
  <2>2. Fits(q)' /\ (Owner(q)' <=> Owner(q)) /\ (Cleared(q)' <=> Cleared(q))
    BY <2>1, OthersStay
  <2>4. RevocationGoesOn(q)'
    BY <1>3, <1>4, <2>1, <2>2 DEF RequestsFit, RevocationGoesOn
  <2>5. RegistrationIsNew(q)'
    BY <1>1, <1>5, <2>1 DEF RequestsFit, RegistrationIsNew
  <2>6. LoginIsNew(q)'
    BY <1>5, <2>1 DEF RequestsFit, LoginIsNew
  <2> QED BY <2>2, <2>4, <2>5, <2>6
<1>7. Fits(r)'
  <2>1. PlaceFits(r)' BY <1>2 DEF Becomes, PlaceFits
  <2>2. MemoryFits(r)'
    BY <1>1, <1>2 DEF Becomes, MemoryFits, Verifies, AsksOtp, SessionKinds
  <2>3. AnswerFits(r)' BY <1>0, <1>2 DEF Becomes, AnswerFits
  <2> QED BY <2>1, <2>2, <2>3 DEF Fits
<1>8. /\ RevocationGoesOn(r)' /\ ~Owner(r)'
      /\ RegistrationIsNew(r)' /\ LoginIsNew(r)'
  BY <1>0, <1>2, <1>3 DEF Becomes, RequestsFit, RevocationGoesOn, Cleared, Owner,
                          RegistrationIsNew, LoginIsNew, SessionKinds
<1>9. OneOwner' /\ \A q \in Requests : OwnerHasAccount(q)'
  BY <1>6, <1>8 DEF RequestsFit, OneOwner, OwnerHasAccount
<1>10. NoneRegistered'
  BY <1>1, <1>5 DEF RequestsFit, NoneRegistered
<1>11. IndexComplete'
  BY <1>3, <1>4 DEF RequestsFit, IndexComplete
<1>12. req' \in ReqType BY DEF Becomes
<1> QED BY <1>6, <1>7, <1>8, <1>9, <1>10, <1>11, <1>12 DEF RequestsFit

(* Sessions and entries of the index go, and none comes.                   *)
LEMMA SessionsGo ==
  ASSUME StoresTyped, RequestsFit, NEW r \in Requests,
         UNCHANGED <<kind, user, raced>>,
         sess' \in [Ids -> Ids \cup {none}],
         \A i \in Ids : sess'[i] = sess[i] \/ sess'[i] = none,
         index' \subseteq index, IndexComplete',
         logged \subseteq logged',
         \A q \in Requests \ {r} : doomed'[q] = doomed[q],
         req' \in ReqType, \A q \in Requests \ {r} : req'[q] = req[q],
         Fits(r)', RevocationGoesOn(r)', ~Owner(r)',
         \A i \in Ids : Names(r, i)' => Names(r, i) \/ ~Unused(i),
         req'[r].pc \notin {"session", "undo"}, kind[r] # "login"
  PROVE  RequestsFit'
<1>1. OtpIds \subseteq Ids /\ OtpIds' = OtpIds /\ Requests \subseteq Ids
  BY DEF OtpIds, AsksOtp, Ids
<1>2. Live' \subseteq Live BY DEF Live, StoresTyped
<1>3. ASSUME NEW i \in Ids, Unused(i)
      PROVE  Unused(i)'
  <2>1. ASSUME NEW q \in Requests PROVE ~Names(q, i)'
    <3>1. CASE q = r BY <1>3, <3>1 DEF Unused
    <3>2. CASE q # r BY <1>3, <3>2 DEF Unused, Names
    <3> QED BY <3>1, <3>2
  <2> QED BY <1>3, <2>1 DEF Unused
<1>4. ASSUME NEW q \in Requests \ {r}
      PROVE  /\ Fits(q)' /\ RevocationGoesOn(q)'
             /\ Owner(q)' <=> Owner(q)
             /\ RegistrationIsNew(q)' /\ LoginIsNew(q)'
  <2>1. req'[q] = req[q] /\ q \in Ids BY <1>1
  <2>2. Fits(q)' /\ (Owner(q)' <=> Owner(q)) /\ (Cleared(q)' <=> Cleared(q))
    BY <2>1, OthersStay
  <2>4. RevocationGoesOn(q)'
    BY <1>2, <2>1, <2>2 DEF RequestsFit, RevocationGoesOn
  <2>5. RegistrationIsNew(q)'
    BY <1>1, <1>3, <2>1 DEF RequestsFit, RegistrationIsNew
  <2>6. LoginIsNew(q)'
    BY <1>3, <2>1 DEF RequestsFit, LoginIsNew
  <2> QED BY <2>2, <2>4, <2>5, <2>6
<1>5. RegistrationIsNew(r)' /\ LoginIsNew(r)'
  BY DEF RegistrationIsNew, LoginIsNew
<1>6. OneOwner' /\ \A q \in Requests : OwnerHasAccount(q)'
  BY <1>4 DEF RequestsFit, OneOwner, OwnerHasAccount
<1>7. NoneRegistered'
  BY <1>1, <1>3 DEF RequestsFit, NoneRegistered
<1> QED BY <1>4, <1>5, <1>6, <1>7 DEF RequestsFit

-----------------------------------------------------------------------------
(* The steps of the requests.                                              *)

(* A request under way has not answered.                                   *)
LEMMA UnderWay ==
  ASSUME RequestsFit, NEW r \in Requests, req[r].pc # "done"
  PROVE  req[r].reply = none
  BY DEF RequestsFit, Fits, AnswerFits

(* A request for an OTP goes from one of its places to another.            *)
LEMMA AskerGoes ==
  ASSUME StoresTyped, RequestsFit, NEW r \in Requests, AsksOtp(r),
         UNCHANGED <<kind, user, sessVars>>, req[r].pc # "done",
         \/ \E pc \in OtpPlaces \cup {"start"} :
              Goto(r, pc) /\ (req[r].sid \in OtpIds \/ pc \in {"start", "find", "refused"})
         \/ \E pc \in OtpPlaces, sid \in OtpIds, val \in Values : GotoWith(r, pc, sid, val)
         \/ Reply(r, "sent") /\ req[r].sid \in OtpIds
  PROVE  RequestsFit'
<1>1. req[r].reply = none /\ req \in ReqType
  BY UnderWay DEF StoresTyped, RequestsFit
<1>2. OtpPlaces \cup {"start"} \subseteq Pcs /\ "sent" \in Replies /\ "done" \notin OtpPlaces
  BY DEF OtpPlaces, Pcs, Replies
<1>3. none # "sent" BY NoneAssumption DEF Replies
<1>4. ASSUME NEW pc \in OtpPlaces \cup {"start"}, Goto(r, pc),
             req[r].sid \in OtpIds \/ pc \in {"start", "find", "refused"}
      PROVE  RequestsFit'
  <2>1. Becomes(r, pc, req[r].sid, req[r].val, none)
    BY <1>1, <1>2, <1>4, GotoEffect
  <2> QED BY <1>1, <1>2, <1>3, <1>4, <2>1, AskerMoves
<1>5. ASSUME NEW pc \in OtpPlaces, NEW sid \in OtpIds, NEW val \in Values,
             GotoWith(r, pc, sid, val)
      PROVE  RequestsFit'
  <2>1. sid \in Ids BY DEF OtpIds, Ids
  <2>2. Becomes(r, pc, sid, val, none)
    BY <1>1, <1>2, <1>5, <2>1, GotoWithEffect
  <2> QED BY <1>1, <1>2, <1>3, <2>2, AskerMoves
<1>6. ASSUME Reply(r, "sent"), req[r].sid \in OtpIds
      PROVE  RequestsFit'
  <2>1. Becomes(r, "done", req[r].sid, req[r].val, "sent")
    BY <1>1, <1>2, <1>6, ReplyEffect
  <2> QED BY <1>1, <1>6, <2>1, AskerMoves
<1> QED BY <1>4, <1>5, <1>6

(* A verification goes on, short of the account.                           *)
LEMMA VerifierGoes ==
  ASSUME StoresTyped, RequestsFit, NEW r \in Requests, Verifies(r),
         UNCHANGED <<kind, user, sessVars>>, req[r].pc # "done",
         \/ \E pc \in {"lock", "compare", "matched", "registration", "undo", "issue", "cleanup",
                       "cleanupMap"} :
              /\ Goto(r, pc) /\ req[r].sid \in OtpIds
              /\ pc = "compare" => req[r].val \in Ids
              /\ pc = "registration" => kind[r] = "verifyOtp"
              /\ pc = "issue" => kind[r] = "verifyResetOtp"
              /\ pc = "undo" => req[r].pc = "session"
              /\ pc \in {"cleanup", "cleanupMap"} =>
                   kind[r] = "verifyResetOtp" \/ req[r].pc = "cleanup"
         \/ \E pc \in {"read", "attempt", "create"}, sid \in OtpIds, val \in Ids \cup {none} :
              /\ GotoWith(r, pc, sid, val)
              /\ pc # "read" => val # none
              /\ pc = "read" => kind[r] = "verifyResetOtp"
              /\ pc = "create" => kind[r] = "verifyOtp"
  PROVE  RequestsFit'
<1>1. req[r].reply = none /\ req \in ReqType
  BY UnderWay DEF StoresTyped, RequestsFit
<1>2. {"read", "attempt", "create", "lock", "compare", "matched", "registration", "undo", "issue",
       "cleanup", "cleanupMap"} \subseteq Pcs
  BY DEF Pcs
<1>3. ASSUME NEW pc \in {"lock", "compare", "matched", "registration", "undo", "issue", "cleanup",
                         "cleanupMap"},
             Goto(r, pc), req[r].sid \in OtpIds,
             pc = "compare" => req[r].val \in Ids,
             pc = "registration" => kind[r] = "verifyOtp",
             pc = "issue" => kind[r] = "verifyResetOtp",
             pc = "undo" => req[r].pc = "session",
             pc \in {"cleanup", "cleanupMap"} =>
               kind[r] = "verifyResetOtp" \/ req[r].pc = "cleanup"
      PROVE  RequestsFit'
  <2>1. Becomes(r, pc, req[r].sid, req[r].val, none)
    BY <1>1, <1>2, <1>3, GotoEffect
  <2> QED BY <1>1, <1>3, <2>1, VerifierMoves
<1>4. ASSUME NEW pc \in {"read", "attempt", "create"}, NEW sid \in OtpIds,
             NEW val \in Ids \cup {none}, GotoWith(r, pc, sid, val),
             pc # "read" => val # none,
             pc = "read" => kind[r] = "verifyResetOtp",
             pc = "create" => kind[r] = "verifyOtp"
      PROVE  RequestsFit'
  <2>1. sid \in Ids /\ val \in Values BY DEF OtpIds, Ids, Values
  <2>2. Becomes(r, pc, sid, val, none)
    BY <1>1, <1>2, <1>4, <2>1, GotoWithEffect
  <2>3. pc \in {"create", "attempt", "compare"} => val \in Ids BY <1>4
  <2> QED BY <1>1, <1>4, <2>2, <2>3, VerifierMoves
<1> QED BY <1>3, <1>4

(* Asking for an OTP, one action after the other.                          *)
LEMMA OtpSteps ==
  ASSUME StoresTyped, RequestsFit, NEW r \in Requests, OtpStep(r)
  PROVE  RequestsFit'
<1>0. PlaceFits(r) /\ MemoryFits(r) BY DEF RequestsFit, Fits
<1>1. CASE sendOtp(r)
  <2>1. "conflict" \in PlainReplies BY DEF PlainReplies, Replies
  <2>2. AsksOtp(r) BY <1>1 DEF sendOtp, AsksOtp
  <2>3. Reply(r, "conflict") => RequestsFit' BY <1>1, <2>1, Ends DEF sendOtp, fixed
  <2>4. Goto(r, "find") => RequestsFit'
    BY <1>1, <2>2, AskerGoes DEF sendOtp, fixed, At, OtpPlaces
  <2> QED BY <1>1, <2>3, <2>4 DEF sendOtp
<1>2. CASE forgotPassword(r)
  <2>1. "notFound" \in PlainReplies BY DEF PlainReplies, Replies
  <2>2. AsksOtp(r) BY <1>2 DEF forgotPassword, AsksOtp
  <2>3. Reply(r, "notFound") => RequestsFit' BY <1>2, <2>1, Ends DEF forgotPassword, fixed
  <2>4. Goto(r, "find") => RequestsFit'
    BY <1>2, <2>2, AskerGoes DEF forgotPassword, fixed, At, OtpPlaces
  <2> QED BY <1>2, <2>3, <2>4 DEF forgotPassword
<1>3. CASE findExistingOtpSession(r)
  <2>1. /\ AsksOtp(r) /\ req[r].pc # "done" /\ UNCHANGED <<kind, user, sessVars>>
        /\ \E sid \in OtpIds, val \in {"new", "old"} : GotoWith(r, "incr", sid, val)
    BY <1>3 DEF findExistingOtpSession, fixed, At, StoresTyped, OtpIds
  <2>2. {"new", "old"} \subseteq Values /\ "incr" \in OtpPlaces BY DEF Values, OtpPlaces
  <2> QED BY <2>1, <2>2, AskerGoes
<1>4. CASE incrRate(r)
  <2>1. /\ AsksOtp(r) /\ req[r].pc # "done" /\ UNCHANGED <<kind, user, sessVars>>
        /\ \E pc \in {"ttlLimited", "ttl"} : Goto(r, pc)
        /\ req[r].pc = "incr"
    BY <1>4 DEF incrRate, fixed, At
  <2>2. req[r].sid \in OtpIds BY <1>0, <2>1 DEF MemoryFits
  <2> QED BY <2>1, <2>2, AskerGoes DEF OtpPlaces
<1>5. CASE ensureTtl(r)
  <2>1. /\ AsksOtp(r) /\ req[r].pc # "done" /\ UNCHANGED <<kind, user, sessVars>>
        /\ \E pc \in {"store", "refused"} : Goto(r, pc)
        /\ req[r].pc \in {"ttl", "ttlLimited"}
    BY <1>5 DEF ensureTtl, fixed, At
  <2>2. req[r].sid \in OtpIds BY <1>0, <2>1 DEF MemoryFits
  <2> QED BY <2>1, <2>2, AskerGoes DEF OtpPlaces
<1>6. CASE retryOtp(r)
  <2>1. /\ req[r].pc = "refused" /\ UNCHANGED <<kind, user, sessVars>> /\ Goto(r, "start")
    BY <1>6 DEF retryOtp, fixed, At
  <2>2. AsksOtp(r) BY <1>0, <2>1 DEF PlaceFits
  <2> QED BY <2>1, <2>2, AskerGoes
<1>7. ASSUME req[r].pc \in {"store", "map", "clear", "data", "publish", "rollback", "rollbackMap"},
             UNCHANGED <<kind, user, sessVars>>,
             \/ \E pc \in OtpPlaces : Goto(r, pc)
             \/ Reply(r, "sent")
             \/ Reply(r, "publishFailed")
      PROVE  RequestsFit'
  <2>1. AsksOtp(r) BY <1>0, <1>7 DEF PlaceFits
  <2>2. req[r].sid \in OtpIds BY <1>0, <1>7, <2>1 DEF MemoryFits
  <2>3. "publishFailed" \in PlainReplies BY DEF PlainReplies, Replies
  <2>4. CASE Reply(r, "publishFailed") BY <1>7, <2>3, <2>4, Ends
  <2>5. CASE \E pc \in OtpPlaces : Goto(r, pc) BY <1>7, <2>1, <2>2, <2>5, AskerGoes
  <2>6. CASE Reply(r, "sent") BY <1>7, <2>1, <2>2, <2>6, AskerGoes
  <2> QED BY <1>7, <2>4, <2>5, <2>6
<1>8. CASE storeOtp(r) BY <1>8, <1>7 DEF storeOtp, fixed, At, OtpPlaces
<1>9. CASE storeOtpSession(r)
  BY <1>9, <1>7 DEF storeOtpSession, fixed, At, OtpPlaces
<1>10. CASE replaceOtp(r) BY <1>10, <1>7 DEF replaceOtp, fixed, At, OtpPlaces
<1>11. CASE storeRegistrationSession(r)
  BY <1>11, <1>7 DEF storeRegistrationSession, fixed, At, OtpPlaces
<1>12. CASE publishOtpRequested(r) BY <1>12, <1>7 DEF publishOtpRequested, fixed, At
<1>13. CASE rollbackOtp(r) BY <1>13, <1>7 DEF rollbackOtp, fixed, At, OtpPlaces
<1>14. CASE deleteOtpSession(r) /\ At(r, "rollbackMap")
  <2>1. /\ UNCHANGED <<kind, user, sessVars>> /\ req[r].pc = "rollbackMap"
        /\ Reply(r, "publishFailed")
    BY <1>0, <1>14 DEF deleteOtpSession, fixed, At, PlaceFits, AsksOtp
  <2> QED BY <2>1, <1>7
<1>15. CASE deleteOtpSession(r) /\ At(r, "cleanupMap")
  <2>1. /\ UNCHANGED <<kind, user, sessVars>> /\ req[r].pc = "cleanupMap" /\ Verifies(r)
        /\ \/ kind[r] = "verifyOtp" /\ Reply(r, "registered")
           \/ Reply(r, "token")
    BY <1>0, <1>15 DEF deleteOtpSession, fixed, At, PlaceFits
  <2>2. "token" \in PlainReplies BY DEF PlainReplies, Replies
  <2>3. CASE kind[r] = "verifyOtp" /\ Reply(r, "registered")
    <3>0. none \notin {"sent", "registered", "loggedIn", "refreshed", "loggedOut", "reset"}
      BY NoneAssumption DEF Replies
    <3>1. Becomes(r, "done", req[r].sid, req[r].val, "registered")
      BY <2>3, ReplyEffect DEF RequestsFit, Replies
    <3>2. Owner(r) /\ req[r].sid \in OtpIds
      BY <1>0, <2>1, <2>3 DEF Owner, MemoryFits
    <3>3. OtpIds' = OtpIds BY <2>1 DEF OtpIds, AsksOtp
    <3>4. Fits(r)'
      BY <2>1, <2>3, <3>0, <3>1, <3>2, <3>3
         DEF Becomes, Fits, PlaceFits, MemoryFits, AnswerFits, AsksOtp, SessionKinds
    <3>5. RevocationGoesOn(r)'
      BY <2>1, <3>1 DEF Becomes, RequestsFit, RevocationGoesOn, Cleared, sessVars
    <3>6. user # none BY <3>2 DEF RequestsFit, OwnerHasAccount
    <3>7. \A s \in NewIds : Names(r, s)' => Names(r, s)
      <4>1. \A q \in Requests : req[q].pc \in {"session", "undo"} => Owner(q)
        BY DEF RequestsFit, Fits, PlaceFits, Owner
      <4>2. NewIds \cap OtpIds = {}
        BY <2>1, <3>2, <3>6, <4>1 DEF NewIds, RequestsFit, OneOwner, OtpIds, AsksOtp
      <4>3. \A s : Names(r, s)' => Names(r, s) \/ s = req[r].sid
        BY <2>1, <2>3, <3>1 DEF Becomes, Names, SessionKinds, sessVars
      <4> QED BY <3>2, <4>2, <4>3
    <3> QED BY <2>1, <2>3, <3>1, <3>2, <3>4, <3>5, <3>7, RequestMoves DEF Becomes
  <2> QED BY <2>1, <2>2, <2>3, Ends
<1> QED BY <1>1, <1>2, <1>3, <1>4, <1>5, <1>6, <1>8, <1>9, <1>10, <1>11, <1>12, <1>13, <1>14, <1>15
        DEF OtpStep, deleteOtpSession, At

(* Verifying an OTP, one action after the other.                           *)
LEMMA VerifySteps ==
  ASSUME StoresTyped, RequestsFit, NEW r \in Requests, VerifyStep(r)
  PROVE  RequestsFit'
<1>0. PlaceFits(r) /\ MemoryFits(r) BY DEF RequestsFit, Fits
<1> DEFINE Same == UNCHANGED <<kind, user, sessVars>>
<1>1. {"expired", "locked", "invalid", "error"} \subseteq PlainReplies
  BY DEF PlainReplies, Replies
<1>2. CASE verifyOtp(r)
  <2>1. Verifies(r) /\ Same /\ req[r].pc # "done"
    BY <1>2 DEF verifyOtp, Verifies, fixed, At
  <2>2. PICK s \in otpSessionCookies :
          IF otp[s] = none THEN Reply(r, "expired") ELSE GotoWith(r, "attempt", s, otp[s])
    BY <1>2 DEF verifyOtp
  <2>3. s \in OtpIds
    BY DEF otpSessionCookies, Answered, RequestsFit, Fits, AnswerFits
  <2>4. otp[s] \in Ids \cup {none} BY <2>3 DEF StoresTyped, OtpIds, Ids
  <2> QED BY <1>1, <2>1, <2>2, <2>3, <2>4, Ends, VerifierGoes
<1>3. CASE VerifyPasswordResetOtp(r)
  <2>1. Verifies(r) /\ Same /\ req[r].pc # "done" /\ kind[r] = "verifyResetOtp"
    BY <1>3 DEF VerifyPasswordResetOtp, Verifies, fixed, At
  <2>2. ASSUME NEW s \in resetSessions,
               IF s \in resetFor THEN GotoWith(r, "read", s, none) ELSE Reply(r, "expired")
        PROVE  RequestsFit'
    <3>1. s \in OtpIds
      BY DEF resetSessions, Answered, RequestsFit, Fits, AnswerFits
    <3> QED BY <1>1, <2>1, <2>2, <3>1, Ends, VerifierGoes
  <2>3. ASSUME At(r, "read"),
               IF otp[req[r].sid] = none THEN Reply(r, "expired")
                                         ELSE GotoWith(r, "attempt", req[r].sid, otp[req[r].sid])
        PROVE  RequestsFit'
    <3>1. req[r].sid \in OtpIds BY <1>0, <2>1, <2>3 DEF MemoryFits, At
    <3>2. otp[req[r].sid] \in Ids \cup {none} BY <3>1 DEF StoresTyped, OtpIds, Ids
    <3> QED BY <1>1, <2>1, <2>3, <3>1, <3>2, Ends, VerifierGoes
  <2> QED BY <1>3, <2>2, <2>3 DEF VerifyPasswordResetOtp
<1>4. CASE incrAttempts(r)
  <2>1. /\ Verifies(r) /\ Same /\ req[r].pc = "attempt"
        /\ Goto(r, "lock") \/ Goto(r, "compare")
    BY <1>4 DEF incrAttempts, fixed, At
  <2>2. req[r].sid \in OtpIds /\ req[r].val \in Ids BY <1>0, <2>1 DEF MemoryFits
  <2>3. CASE Goto(r, "lock") BY <2>1, <2>2, <2>3, VerifierGoes
  <2>4. CASE Goto(r, "compare") BY <2>1, <2>2, <2>4, VerifierGoes
  <2> QED BY <2>1, <2>3, <2>4
<1>5. CASE lockOtp(r)
  BY <1>1, <1>5, Ends DEF lockOtp, fixed
<1>6. CASE compareOtp(r)
  <2>1. /\ Verifies(r) /\ Same /\ req[r].pc = "compare"
        /\ Goto(r, "matched") \/ Reply(r, "invalid")
    BY <1>6 DEF compareOtp, fixed, At
  <2>2. req[r].sid \in OtpIds BY <1>0, <2>1 DEF MemoryFits
  <2>3. CASE Goto(r, "matched") BY <2>1, <2>2, <2>3, VerifierGoes
  <2>4. CASE Reply(r, "invalid") BY <1>1, <2>1, <2>4, Ends
  <2> QED BY <2>1, <2>3, <2>4
<1>7. CASE clearAttempts(r)
  <2>1. /\ Verifies(r) /\ Same /\ req[r].pc = "matched"
        /\ \/ kind[r] = "verifyOtp" /\ Goto(r, "registration")
           \/ kind[r] # "verifyOtp" /\ Goto(r, "issue")
    BY <1>7 DEF clearAttempts, fixed, At
  <2>2. req[r].sid \in OtpIds BY <1>0, <2>1 DEF MemoryFits
  <2>3. CASE kind[r] = "verifyOtp" /\ Goto(r, "registration")
    BY <2>1, <2>2, <2>3, VerifierGoes
  <2>4. CASE kind[r] # "verifyOtp" /\ Goto(r, "issue")
    <3>1. kind[r] = "verifyResetOtp" BY <2>1, <2>4 DEF Verifies
    <3> QED BY <2>1, <2>2, <2>4, <3>1, VerifierGoes
  <2> QED BY <2>1, <2>3, <2>4
<1>8. CASE getRegistrationSession(r)
  <2>1. Same /\ req[r].pc = "registration" /\ kind[r] = "verifyOtp" /\ Verifies(r)
    BY <1>0, <1>8 DEF getRegistrationSession, fixed, At, PlaceFits, Verifies
  <2>2. req[r].sid \in OtpIds BY <1>0, <2>1 DEF MemoryFits
  <2>3. regData[req[r].sid] \in Ids \cup {none} BY <2>2 DEF StoresTyped, OtpIds, Ids
  <2>4. \/ Reply(r, "expired")
        \/ regData[req[r].sid] # none /\ GotoWith(r, "create", req[r].sid, regData[req[r].sid])
    BY <1>8 DEF getRegistrationSession
  <2> QED BY <1>1, <2>1, <2>2, <2>3, <2>4, Ends, VerifierGoes
<1>9. CASE createUser(r)
  <2>1. req[r].pc = "create" /\ UNCHANGED <<kind, sessVars>> /\ kind[r] = "verifyOtp"
    BY <1>0, <1>9 DEF createUser, fixed, At, PlaceFits
  <2>2. CASE user # none
    BY <1>1, <1>9, <2>1, <2>2, Ends DEF createUser, createUserFails
  <2>3. CASE user = none
    <3>0. none \notin {"registered", "loggedOut", "reset", "sent", "loggedIn", "refreshed"}
      BY NoneAssumption DEF Replies
    <3>1. /\ user' = req[r].val /\ Goto(r, "session") /\ req[r].val \in Ids
          /\ req[r].sid \in OtpIds
      BY <1>0, <1>9, <2>1, <2>3 DEF createUser, MemoryFits, Verifies
    <3>2. user' # none BY <3>1, NoneAssumption DEF Ids
    <3>3. Becomes(r, "session", req[r].sid, req[r].val, none)
      BY <2>1, <3>1, GotoEffect, UnderWay DEF RequestsFit, Pcs
    <3>4. OtpIds' = OtpIds BY <2>1 DEF OtpIds, AsksOtp
    <3>5. Fits(r)'
      <4>1. PlaceFits(r)' BY <2>1, <3>3 DEF Becomes, PlaceFits
      <4>2. MemoryFits(r)'
        BY <2>1, <3>1, <3>3, <3>4 DEF Becomes, MemoryFits, AsksOtp, SessionKinds
      <4>3. AnswerFits(r)' BY <3>0, <3>3 DEF Becomes, AnswerFits
      <4> QED BY <4>1, <4>2, <4>3 DEF Fits
    <3>6. RevocationGoesOn(r)'
      BY <2>1, <3>0, <3>3 DEF Becomes, RevocationGoesOn, Cleared, sessVars
    <3>7. \A q \in Requests : ~Owner(q) BY <2>3 DEF RequestsFit, OwnerHasAccount
    <3>8. \A s : Names(r, s)' => Names(r, s)
      BY <2>1, <3>0, <3>3 DEF Becomes, Names, SessionKinds, sessVars
    <3> QED BY <2>1, <2>3, <3>2, <3>3, <3>5, <3>6, <3>7, <3>8, AccountMoves DEF Becomes
  <2> QED BY <2>2, <2>3
<1>10. CASE registerUser(r)
  <2>1. /\ req[r].pc = "session" /\ UNCHANGED <<kind, user>> /\ kind[r] = "verifyOtp"
        /\ Verifies(r)
    BY <1>0, <1>10 DEF registerUser, fixed, At, PlaceFits, Verifies
  <2>2. req[r].sid \in OtpIds /\ req[r].sid \in Ids
    BY <1>0, <2>1 DEF MemoryFits, OtpIds, Ids
  <2>3. CASE /\ createAuthSession(r, req[r].sid) /\ Goto(r, "cleanup")
             /\ UNCHANGED <<doomed, logged, faults>>
    <3>1. Becomes(r, "cleanup", req[r].sid, req[r].val, none)
      BY <2>1, <2>3, GotoEffect, UnderWay DEF RequestsFit, Pcs
    <3> QED BY <2>1, <2>2, <2>3, <3>1, SessionCreated
  <2>4. CASE Fault /\ Goto(r, "undo") /\ UNCHANGED sessVars
    BY <2>1, <2>2, <2>4, VerifierGoes
  <2> QED BY <1>10, <2>3, <2>4 DEF registerUser
<1>11. CASE deleteUser(r)
  <2>1. /\ req[r].pc = "undo" /\ UNCHANGED <<kind, sessVars>> /\ kind[r] = "verifyOtp"
        /\ Reply(r, "error") /\ user' \in {none, user}
    BY <1>0, <1>11 DEF deleteUser, fixed, At, PlaceFits
  <2>2. CASE user' = user
    BY <1>1, <2>1, <2>2, Ends
  <2>3. CASE user' = none
    <3>1. Becomes(r, "done", req[r].sid, req[r].val, "error")
      BY <2>1, ReplyEffect, UnderWay DEF RequestsFit, Replies
    <3>2. Owner(r) /\ ~Owner(r)' BY <2>1, <3>1 DEF Owner, Becomes
    <3>3. Fits(r)'
      BY <2>1, <3>1 DEF Becomes, Fits, PlaceFits, MemoryFits, AnswerFits, AsksOtp, SessionKinds
    <3>4. RevocationGoesOn(r)'
      BY <2>1, <3>1 DEF Becomes, RevocationGoesOn, Cleared, sessVars
    <3>5. \A s : Names(r, s)' => Names(r, s)
      BY <2>1, <3>1 DEF Becomes, Names, SessionKinds, sessVars
    <3> QED BY <2>1, <3>1, <3>2, <3>3, <3>4, <3>5, AccountMoves DEF Becomes
  <2> QED BY <2>1, <2>2, <2>3
<1>12. CASE deleteRegistrationSession(r)
  <2>1. Same /\ req[r].pc = "cleanup" /\ Goto(r, "cleanupMap") /\ Verifies(r)
    BY <1>0, <1>12 DEF deleteRegistrationSession, fixed, At, PlaceFits
  <2>2. req[r].sid \in OtpIds BY <1>0, <2>1 DEF MemoryFits
  <2> QED BY <2>1, <2>2, VerifierGoes
<1>13. CASE issueResetToken(r)
  <2>1. Same /\ req[r].pc = "issue" /\ Goto(r, "cleanup") /\ kind[r] = "verifyResetOtp"
        /\ Verifies(r)
    BY <1>0, <1>13 DEF issueResetToken, fixed, At, PlaceFits, Verifies
  <2>2. req[r].sid \in OtpIds BY <1>0, <2>1 DEF MemoryFits
  <2> QED BY <2>1, <2>2, VerifierGoes
<1> QED BY <1>2, <1>3, <1>4, <1>5, <1>6, <1>7, <1>8, <1>9, <1>10, <1>11, <1>12, <1>13
        DEF VerifyStep

(* The cookies name sessions that are not to be created any more, and a    *)
(* request of a session has its id.                                        *)
LEMMA CookiesNameOld ==
  ASSUME StoresTyped, RequestsFit, NEW c \in Cookies
  PROVE  c[1] \in Ids /\ c[2] \in Ids /\ (Unused(c[2]) => c[2] \notin NewIds)
<1>0. none \notin {"registered", "loggedIn", "refreshed"}
  BY NoneAssumption DEF Replies
<1>1. \A q \in Requests : q \in Ids /\ q # 0 BY RequestsAssumption DEF Ids
<1>2. CASE c = <<0, 0>>
  BY <1>1, <1>2 DEF NewIds, OtpIds, Ids
<1>3. ASSUME NEW q \in Requests, c = <<q, req[q].sid>>, req[q].reply = "registered"
      PROVE  c[1] \in Ids /\ c[2] \in Ids /\ (Unused(c[2]) => c[2] \notin NewIds)
  <2>1. c[2] \in OtpIds /\ Names(q, c[2])
    BY <1>3 DEF RequestsFit, Fits, AnswerFits, Names
  <2> QED BY <1>1, <1>3, <2>1 DEF Unused, OtpIds
<1>4. ASSUME NEW q \in Requests, c = <<q, q>>, kind[q] = "login", req[q].reply = "loggedIn"
      PROVE  c[1] \in Ids /\ c[2] \in Ids /\ (Unused(c[2]) => c[2] \notin NewIds)
  <2>1. q \notin OtpIds /\ req[q].pc = "done"
    BY <1>0, <1>4 DEF OtpIds, AsksOtp, RequestsFit, Fits, AnswerFits
  <2> QED BY <1>1, <1>4, <2>1 DEF NewIds
<1>5. ASSUME NEW q \in Requests, c = <<q, req[q].sid>>, req[q].reply = "refreshed"
      PROVE  c[1] \in Ids /\ c[2] \in Ids /\ (Unused(c[2]) => c[2] \notin NewIds)
  <2>1. c[2] \in Ids /\ Names(q, c[2])
    BY <1>5 DEF RequestsFit, Fits, AnswerFits, Names, SessionKinds
  <2> QED BY <1>1, <1>5, <2>1 DEF Unused
<1> QED BY <1>2, <1>3, <1>4, <1>5
        DEF Cookies, registrationCookies, loginCookies, refreshCookies, Answered

SessionPlaces == {"findById", "rotate", "touch", "handler", "delSession"}

(* A request of a session goes on, with a session it may have.             *)
LEMMA SessionMoves ==
  ASSUME StoresTyped, RequestsFit, NEW r \in Requests, kind[r] \in SessionKinds,
         req[r].pc # "done", UNCHANGED <<kind, user, sessVars>>,
         NEW pc \in SessionPlaces, NEW sid \in Ids, NEW val \in Values,
         Becomes(r, pc, sid, val, none),
         sid = req[r].sid \/ (Unused(sid) => sid \notin NewIds),
         pc = "touch" => val \in Ids,
         pc \in {"findById", "rotate"} => kind[r] = "refresh",
         pc \in {"touch", "handler"} => kind[r] \in {"getSessions", "revokeSession"},
         pc = "delSession" => kind[r] \in {"refresh", "revokeSession", "logout"}
  PROVE  RequestsFit'
<1>0. none \notin {"registered", "loggedOut", "reset", "sent", "loggedIn", "refreshed"}
  BY NoneAssumption DEF Replies
<1>1. Fits(r)'
  <2>1. PlaceFits(r)' BY DEF Becomes, PlaceFits, SessionPlaces
  <2>2. MemoryFits(r)'
    BY DEF Becomes, MemoryFits, AsksOtp, Verifies, SessionKinds, SessionPlaces
  <2>3. AnswerFits(r)' BY <1>0 DEF Becomes, AnswerFits
  <2> QED BY <2>1, <2>2, <2>3 DEF Fits
<1>2. RevocationGoesOn(r)' /\ ~Owner(r)'
  BY <1>0 DEF Becomes, RevocationGoesOn, Cleared, Owner, SessionKinds, SessionPlaces, sessVars
<1>3. \A s \in NewIds : Names(r, s)' => Names(r, s) \/ ~Unused(s)
  BY <1>0 DEF Becomes, Names, SessionPlaces, sessVars
<1>4. req'[r].pc \notin {"session", "undo"} /\ kind[r] # "login"
  BY DEF Becomes, SessionPlaces, SessionKinds
<1> QED BY <1>1, <1>2, <1>3, <1>4, RequestMoves DEF Becomes

(* A request of its user's own sessions ends, or names one of them.        *)
LEMMA SessionGoes ==
  ASSUME StoresTyped, RequestsFit, NEW r \in Requests, kind[r] \in SessionKinds,
         req[r].pc # "done", UNCHANGED <<kind, user, sessVars>>,
         NEW pc \in {"findById", "touch", "delSession"}, NEW sid \in Ids, NEW val \in Ids \cup {none},
         GotoWith(r, pc, sid, val),
         sid = req[r].sid \/ (Unused(sid) => sid \notin NewIds),
         pc \in {"findById", "touch"} => val \in Ids,
         pc = "findById" => kind[r] = "refresh",
         pc = "touch" => kind[r] \in {"getSessions", "revokeSession"},
         pc = "delSession" => kind[r] \in {"refresh", "revokeSession", "logout"}
  PROVE  RequestsFit'
<1>1. pc \in Pcs /\ pc \in SessionPlaces BY DEF Pcs, SessionPlaces
<1>2. val \in Values BY DEF Values
<1>3. Becomes(r, pc, sid, val, none)
  BY <1>1, <1>2, GotoWithEffect, UnderWay DEF RequestsFit
<1> QED BY <1>1, <1>2, <1>3, SessionMoves

(* refresh, the session middleware and its two handlers, and logout up to  *)
(* the deletion.                                                           *)
LEMMA ReadingSteps ==
  ASSUME StoresTyped, RequestsFit, NEW r \in Requests,
         \/ refreshUser(r) \/ rotate(r) \/ sessionMiddleware(r) \/ getSessions(r)
         \/ revokeSession(r) \/ logoutByRefreshToken(r)
  PROVE  RequestsFit'
<1>0. PlaceFits(r) /\ MemoryFits(r) /\ req \in ReqType
  BY DEF RequestsFit, Fits, StoresTyped
<1> DEFINE Same == UNCHANGED <<kind, user, sessVars>>
<1>1. {"invalid", "revoked"} \subseteq PlainReplies BY DEF PlainReplies, Replies
<1>2. CASE refreshUser(r)
  <2>1. /\ Same /\ req[r].pc = "findById" /\ kind[r] = "refresh"
        /\ Reply(r, "invalid") \/ Goto(r, "rotate")
    BY <1>0, <1>2 DEF refreshUser, fixed, At, PlaceFits
  <2>2. CASE Reply(r, "invalid") BY <1>1, <2>1, <2>2, Ends
  <2>3. CASE Goto(r, "rotate")
    <3>1. Becomes(r, "rotate", req[r].sid, req[r].val, none)
      BY <1>0, <2>1, <2>3, GotoEffect, UnderWay DEF Pcs
    <3>2. req[r].sid \in Ids /\ req[r].val \in Values
      BY <1>0, <2>1, UnderWay DEF MemoryFits, SessionKinds, ReqType
    <3> QED BY <2>1, <3>1, <3>2, SessionMoves DEF SessionPlaces, SessionKinds
  <2> QED BY <2>1, <2>2, <2>3
<1>3. CASE rotate(r)
  <2>1. /\ UNCHANGED <<kind, user>> /\ req[r].pc = "rotate" /\ rewrite(req[r].sid, r)
        /\ Reply(r, "refreshed") /\ r \in Ids
    BY <1>3 DEF rotate, fixed, At, Ids
  <2>2. Becomes(r, "done", req[r].sid, req[r].val, "refreshed")
    BY <1>0, <2>1, ReplyEffect DEF Replies
  <2> QED BY <2>1, <2>2, SessionRewritten
<1>4. CASE sessionMiddleware(r)
  <2>1. UNCHANGED <<kind, user>> /\ kind[r] \in {"getSessions", "revokeSession"}
    BY <1>4 DEF sessionMiddleware, fixed
  <2>2. CASE /\ At(r, "start")
             /\ \E c \in Cookies : IF sess[c[2]] = none THEN Reply(r, "revoked")
                                   ELSE GotoWith(r, "touch", c[2], sess[c[2]])
             /\ UNCHANGED sessVars
    <3>1. PICK c \in Cookies : IF sess[c[2]] = none THEN Reply(r, "revoked")
                                ELSE GotoWith(r, "touch", c[2], sess[c[2]])
      BY <2>2
    <3>2. c[2] \in Ids /\ (Unused(c[2]) => c[2] \notin NewIds) BY CookiesNameOld
    <3>3. sess[c[2]] \in Ids \cup {none} BY <3>2 DEF StoresTyped
    <3>4. CASE Reply(r, "revoked") BY <1>1, <2>1, <2>2, <3>4, Ends
    <3>5. CASE sess[c[2]] # none /\ GotoWith(r, "touch", c[2], sess[c[2]])
      <4>1. kind[r] \in SessionKinds /\ req[r].pc # "done" /\ Same
        BY <2>1, <2>2 DEF SessionKinds, At
      <4> QED BY <2>1, <3>2, <3>3, <3>5, <4>1, SessionGoes
    <3> QED BY <3>1, <3>4, <3>5
  <2>3. CASE At(r, "touch") /\ rewrite(req[r].sid, req[r].val) /\ Goto(r, "handler")
    <3>1. req[r].val \in Ids /\ req[r].pc = "touch" BY <1>0, <2>3 DEF MemoryFits, At
    <3>2. Becomes(r, "handler", req[r].sid, req[r].val, none)
      BY <1>0, <2>3, <3>1, GotoEffect, UnderWay DEF Pcs
    <3> QED BY <2>1, <2>3, <3>1, <3>2, SessionRewritten
  <2> QED BY <1>4, <2>2, <2>3 DEF sessionMiddleware
<1>5. CASE getSessions(r)
  <2>1. /\ Same /\ req[r].pc = "handler" /\ kind[r] = "getSessions"
        /\ GotoWith(r, "srem", req[r].sid, index \ Live)
    BY <1>5 DEF getSessions, fixed, At
  <2>2. req[r].sid \in Ids BY <1>0, <2>1 DEF MemoryFits, SessionKinds
  <2>3. index \subseteq Ids /\ index \ Live \in Values BY DEF StoresTyped, Values
  <2>4. Becomes(r, "srem", req[r].sid, index \ Live, none)
    BY <1>0, <2>1, <2>2, <2>3, GotoWithEffect, UnderWay DEF Pcs
  <2>5. none \notin {"registered", "loggedOut", "reset", "sent", "loggedIn", "refreshed"}
    BY NoneAssumption DEF Replies
  <2>6. Fits(r)'
    BY <2>1, <2>2, <2>3, <2>4, <2>5
       DEF Becomes, Fits, PlaceFits, MemoryFits, AnswerFits, AsksOtp, Verifies
  <2>7. RevocationGoesOn(r)' /\ ~Owner(r)'
    BY <1>0, <2>1, <2>4, <2>5 DEF Becomes, RevocationGoesOn, Cleared, Owner, Live, sessVars
  <2>8. \A s \in NewIds : Names(r, s)' => Names(r, s) \/ ~Unused(s)
    BY <2>1, <2>4, <2>5 DEF Becomes, Names, Unused, sessVars
  <2> QED BY <2>1, <2>4, <2>6, <2>7, <2>8, RequestMoves DEF Becomes
<1>6. CASE revokeSession(r)
  <2>1. Same /\ req[r].pc # "done" /\ kind[r] = "revokeSession" /\ kind[r] \in SessionKinds
    BY <1>6 DEF revokeSession, fixed, At, SessionKinds
  <2>2. PICK s \in index :
          IF sess[s] = none THEN Reply(r, "revoked") ELSE GotoWith(r, "delSession", s, none)
    BY <1>6 DEF revokeSession
  <2>3. s \in Ids /\ ~Unused(s) BY DEF StoresTyped, Unused
  <2>4. CASE Reply(r, "revoked") BY <1>1, <2>1, <2>4, Ends
  <2>5. CASE GotoWith(r, "delSession", s, none) BY <2>1, <2>3, <2>5, SessionGoes
  <2> QED BY <2>2, <2>4, <2>5
<1>7. CASE logoutByRefreshToken(r)
  <2>1. Same /\ req[r].pc # "done" /\ kind[r] = "logout" /\ kind[r] \in SessionKinds
    BY <1>7 DEF logoutByRefreshToken, fixed, At, SessionKinds
  <2>2. PICK c \in Cookies : GotoWith(r, "delSession", c[2], none)
    BY <1>7 DEF logoutByRefreshToken
  <2>3. c[2] \in Ids /\ (Unused(c[2]) => c[2] \notin NewIds) BY CookiesNameOld
  <2> QED BY <2>1, <2>2, <2>3, SessionGoes
<1> QED BY <1>2, <1>3, <1>4, <1>5, <1>6, <1>7

(* A revocation of all sessions begins: a logout of all devices, a refresh *)
(* with an old token, or a reset whose new password is in.                 *)
LEMMA RevocationBegins ==
  ASSUME StoresTyped, RequestsFit, NEW r \in Requests,
         kind[r] \in {"refresh", "logoutAll", "resetPassword"}, req[r].pc # "done",
         UNCHANGED <<kind, sessVars>>, user' = none => user = none,
         NEW sid, NEW val,
         Becomes(r, "members", sid, val, none),
         kind[r] = "refresh" => sid \in Ids /\ (Unused(sid) => sid \notin NewIds)
  PROVE  RequestsFit'
<1>0. none \notin {"registered", "loggedOut", "reset", "sent", "loggedIn", "refreshed"}
  BY NoneAssumption DEF Replies
<1>1. Fits(r)'
  <2>1. PlaceFits(r)' BY DEF Becomes, PlaceFits
  <2>2. MemoryFits(r)' BY DEF Becomes, MemoryFits, AsksOtp, Verifies, SessionKinds
  <2>3. AnswerFits(r)' BY <1>0 DEF Becomes, AnswerFits
  <2> QED BY <2>1, <2>2, <2>3 DEF Fits
<1>2. RevocationGoesOn(r)' /\ ~Owner(r)'
  BY <1>0 DEF Becomes, RevocationGoesOn, Cleared, Owner, sessVars
<1>3. \A s \in NewIds : Names(r, s)' => Names(r, s) \/ ~Unused(s)
  BY <1>0 DEF Becomes, Names, SessionKinds, sessVars
<1> QED BY <1>1, <1>2, <1>3, AccountMoves DEF Becomes

LEMMA LoginSteps ==
  ASSUME StoresTyped, RequestsFit, NEW r \in Requests,
         login(r) \/ loginSession(r) \/ publishUserLoggedIn(r)
  PROVE  RequestsFit'
<1>0. PlaceFits(r) /\ MemoryFits(r) /\ req \in ReqType BY DEF RequestsFit, Fits
<1>1. {"invalid", "notFound", "error"} \subseteq PlainReplies BY DEF PlainReplies, Replies
<1>2. none \notin {"registered", "loggedOut", "reset", "sent", "loggedIn", "refreshed"}
  BY NoneAssumption DEF Replies
<1>3. ASSUME kind[r] = "login", req[r].pc # "done", UNCHANGED <<kind, user, sessVars>>,
             \/ req[r].pc = "start" /\ Goto(r, "loginSession")
             \/ req[r].pc = "welcome" /\ Reply(r, "loggedIn")
      PROVE  RequestsFit'
  <2>1. PICK pc \in {"loginSession", "done"}, answer \in {none, "loggedIn"} :
          /\ Becomes(r, pc, req[r].sid, req[r].val, answer)
          /\ answer # none => pc = "done"
          /\ pc = "loginSession" => req[r].pc = "start"
    BY <1>0, <1>3, GotoEffect, ReplyEffect, UnderWay DEF Pcs, Replies
  <2>2. Fits(r)'
    BY <1>2, <1>3, <2>1 DEF Becomes, Fits, PlaceFits, MemoryFits, AnswerFits, AsksOtp, Verifies,
                            SessionKinds
  <2>3. RevocationGoesOn(r)' /\ ~Owner(r)'
    BY <1>2, <1>3, <2>1, UnderWay DEF Becomes, RevocationGoesOn, Cleared, Owner, sessVars
  <2>4. \A s : Names(r, s)' => Names(r, s)
    BY <1>2, <1>3, <2>1 DEF Becomes, Names, SessionKinds, sessVars
  <2> QED BY <1>3, <2>1, <2>2, <2>3, <2>4, RequestMoves DEF Becomes
<1>4. CASE login(r)
  <2>1. /\ kind[r] = "login" /\ req[r].pc = "start" /\ UNCHANGED <<kind, user, sessVars>>
        /\ Reply(r, "notFound") \/ Reply(r, "invalid") \/ Goto(r, "loginSession")
    BY <1>4 DEF login, fixed, At
  <2>2. CASE Reply(r, "notFound") \/ Reply(r, "invalid") BY <1>1, <2>1, <2>2, Ends
  <2>3. CASE Goto(r, "loginSession") BY <1>3, <2>1, <2>3
  <2> QED BY <2>1, <2>2, <2>3
<1>5. CASE loginSession(r)
  <2>1. req[r].pc = "loginSession" /\ UNCHANGED <<kind, user>> /\ r \in Ids
    BY <1>5 DEF loginSession, fixed, At, Ids
  <2>2. CASE createAuthSession(r, r) /\ Goto(r, "welcome") /\ UNCHANGED <<doomed, logged, faults>>
    <3>1. Becomes(r, "welcome", req[r].sid, req[r].val, none)
      BY <1>0, <2>1, <2>2, GotoEffect, UnderWay DEF Pcs
    <3> QED BY <2>1, <2>2, <3>1, SessionCreated
  <2>3. CASE Fault /\ Reply(r, "error") /\ UNCHANGED sessVars
    BY <1>1, <2>1, <2>3, Ends
  <2> QED BY <1>5, <2>2, <2>3 DEF loginSession
<1>6. CASE publishUserLoggedIn(r)
  BY <1>0, <1>3, <1>6 DEF publishUserLoggedIn, fixed, At, PlaceFits
<1> QED BY <1>4, <1>5, <1>6

(* refresh chooses among all of these.                                     *)
LEMMA RefreshStep ==
  ASSUME StoresTyped, RequestsFit, NEW r \in Requests, refresh(r)
  PROVE  RequestsFit'
<1>1. /\ kind[r] = "refresh" /\ kind[r] \in SessionKinds /\ req[r].pc # "done"
      /\ UNCHANGED <<kind, user, sessVars>>
  BY DEF refresh, fixed, At, SessionKinds
<1>2. PICK c \in Cookies :
        \/ Reply(r, "revoked")
        \/ GotoWith(r, "delSession", c[2], none)
        \/ GotoWith(r, "members", c[2], none)
        \/ sess[c[2]] # none /\ GotoWith(r, "findById", c[2], c[1])
  <2>1. PICK c \in Cookies, sameDevice \in BOOLEAN :
          CASE sess[c[2]] = none -> Reply(r, "revoked")
            [] sess[c[2]] # none /\ ~sameDevice -> GotoWith(r, "delSession", c[2], none)
            [] sess[c[2]] # none /\ sameDevice /\ sess[c[2]] # c[1] ->
                 GotoWith(r, "members", c[2], none)
            [] OTHER -> GotoWith(r, "findById", c[2], c[1])
    BY DEF refresh
  <2> QED BY <2>1
<1>3. c[1] \in Ids /\ c[2] \in Ids /\ (Unused(c[2]) => c[2] \notin NewIds)
  BY CookiesNameOld
<1>4. CASE Reply(r, "revoked")
  <2>1. "revoked" \in PlainReplies BY DEF PlainReplies, Replies
  <2> QED BY <1>1, <1>4, <2>1, Ends
<1>5. CASE GotoWith(r, "delSession", c[2], none)
  BY <1>1, <1>3, <1>5, SessionGoes
<1>6. CASE GotoWith(r, "members", c[2], none)
  <2>1. none \in Values /\ "members" \in Pcs
    BY DEF Values, Pcs
  <2>2. Becomes(r, "members", c[2], none, none)
    BY <1>1, <1>3, <1>6, <2>1, GotoWithEffect, UnderWay DEF RequestsFit
  <2> QED BY <1>1, <1>3, <2>1, <2>2, RevocationBegins
<1>7. CASE sess[c[2]] # none /\ GotoWith(r, "findById", c[2], c[1])
  BY <1>1, <1>3, <1>7, SessionGoes
<1> QED BY <1>2, <1>4, <1>5, <1>6, <1>7

(* Deleting sessions and index entries, one await after the other.         *)
LEMMA DeletingSteps ==
  ASSUME StoresTyped, RequestsFit, NEW r \in Requests,
         removeStale(r) \/ logout(r) \/ logoutAll(r) \/ revocationFails(r)
  PROVE  RequestsFit'
<1>0. PlaceFits(r) /\ MemoryFits(r) /\ req \in ReqType /\ RevocationGoesOn(r) /\ IndexComplete
  BY DEF RequestsFit, Fits
<1>1. none \notin {"registered", "loggedOut", "reset", "sent", "loggedIn", "refreshed"}
  BY NoneAssumption DEF Replies
<1>2. /\ sess \in [Ids -> Ids \cup {none}] /\ doomed \in [Requests -> SUBSET Ids]
      /\ index \subseteq Ids
      /\ req[r].pc \notin {"delSession", "members"} =>
           [doomed EXCEPT ![r] = met(r)] = doomed
  BY DEF StoresTyped, met, At
<1>3. req[r].pc # "done" => req[r].reply = none BY UnderWay
<1>4. CASE removeStale(r)
  <2>1. /\ UNCHANGED <<kind, user, raced, sess, doomed, logged>> /\ kind[r] = "getSessions"
        /\ req[r].pc = "srem" /\ index' = index \ req[r].val /\ Reply(r, "sessions")
    BY <1>4 DEF removeStale, fixed, At
  <2>2. Becomes(r, "done", req[r].sid, req[r].val, "sessions")
    BY <1>0, <2>1, ReplyEffect DEF Replies
  <2>3. IndexComplete'
    BY <1>0, <2>1 DEF IndexComplete, RevocationGoesOn, Live
  <2>4. Fits(r)'
    BY <2>1, <2>2 DEF Becomes, Fits, PlaceFits, MemoryFits, AnswerFits, AsksOtp, Verifies
  <2>5. RevocationGoesOn(r)' /\ ~Owner(r)'
    BY <1>3, <2>1, <2>2 DEF Becomes, RevocationGoesOn, Cleared, Owner
  <2>6. \A i \in Ids : Names(r, i)' => Names(r, i)
    BY <2>1, <2>2 DEF Becomes, Names
  <2> QED BY <1>2, <2>1, <2>2, <2>3, <2>4, <2>5, <2>6, SessionsGo DEF Becomes
<1>5. CASE logout(r) /\ At(r, "delSession")
  <2> DEFINE s == req[r].sid
  <2>1. /\ UNCHANGED <<kind, user, raced, logged, index>> /\ req[r].pc = "delSession"
        /\ sess' = [sess EXCEPT ![s] = none]
        /\ doomed' = [doomed EXCEPT ![r] = {s}] /\ Goto(r, "delEntry")
    BY <1>5 DEF logout, met, fixed, At
  <2>2. kind[r] \in {"refresh", "revokeSession", "logout"} /\ kind[r] \in SessionKinds /\ s \in Ids
    BY <1>0, <2>1 DEF PlaceFits, MemoryFits, SessionKinds
  <2>3. Becomes(r, "delEntry", s, req[r].val, none)
    BY <1>0, <1>3, <2>1, GotoEffect DEF Pcs
  <2>4. /\ sess' \in [Ids -> Ids \cup {none}] /\ s \notin Live' /\ Live' \subseteq Live
        /\ \A i \in Ids : sess'[i] = sess[i] \/ sess'[i] = none
    BY <1>2, <2>1, <2>2 DEF Live
  <2>5. IndexComplete' BY <1>0, <2>1, <2>4 DEF IndexComplete
  <2>6. Fits(r)'
    <3>1. PlaceFits(r)' BY <2>1, <2>2, <2>3 DEF Becomes, PlaceFits
    <3>2. MemoryFits(r)'
      BY <2>1, <2>2, <2>3 DEF Becomes, MemoryFits, AsksOtp, Verifies, SessionKinds
    <3>3. AnswerFits(r)' BY <1>1, <2>3 DEF Becomes, AnswerFits
    <3> QED BY <3>1, <3>2, <3>3 DEF Fits
  <2>7. doomed'[r] = {s} /\ \A q \in Requests \ {r} : doomed'[q] = doomed[q]
    BY <1>2, <2>1
  <2>9. RevocationGoesOn(r)' /\ ~Owner(r)'
    BY <1>1, <2>1, <2>3, <2>4, <2>7 DEF Becomes, RevocationGoesOn, Owner
  <2>10. \A i \in Ids : Names(r, i)' => Names(r, i)
    BY <1>1, <2>1, <2>2, <2>3, <2>7 DEF Becomes, Names
  <2>11. kind[r] # "login" BY <2>2
  <2> QED BY <2>1, <2>3, <2>4, <2>5, <2>6, <2>7, <2>9, <2>10, <2>11, SessionsGo DEF Becomes
<1>6. CASE logout(r) /\ At(r, "delEntry")
  <2> DEFINE s == req[r].sid
  <2>1. /\ UNCHANGED <<kind, user, raced, sess, doomed, logged>> /\ req[r].pc = "delEntry"
        /\ index' = index \ {s} /\ Reply(r, "loggedOut")
    BY <1>2, <1>6 DEF logout, fixed, At
  <2>2. kind[r] \in {"refresh", "revokeSession", "logout"} /\ kind[r] \in SessionKinds /\ s \in Ids
    BY <1>0, <2>1 DEF PlaceFits, MemoryFits, SessionKinds
  <2>3. Becomes(r, "done", s, req[r].val, "loggedOut")
    BY <1>0, <2>1, ReplyEffect DEF Replies
  <2>4. s \in Live => s \in raced
    BY <1>0, <2>1 DEF RevocationGoesOn
  <2>5. IndexComplete' BY <1>0, <2>1, <2>4 DEF IndexComplete, Live
  <2>6. Fits(r)'
    BY <2>1, <2>2, <2>3 DEF Becomes, Fits, PlaceFits, MemoryFits, AnswerFits, AsksOtp, Verifies,
                            SessionKinds
  <2>7. RevocationGoesOn(r)' /\ ~Owner(r)'
    BY <1>0, <1>3, <2>1, <2>2, <2>3, <2>4
       DEF Becomes, RevocationGoesOn, Cleared, Owner, Live
  <2>8. \A i \in Ids : Names(r, i)' => Names(r, i)
    BY <2>1, <2>3 DEF Becomes, Names
  <2>9. kind[r] # "login" BY <2>2
  <2> QED BY <1>2, <2>1, <2>3, <2>5, <2>6, <2>7, <2>8, <2>9, SessionsGo DEF Becomes
<1>7. ASSUME req[r].pc \in {"members", "delSessions", "delIndex"}
      PROVE  kind[r] \in {"refresh", "logoutAll", "resetPassword"} /\ kind[r] # "login"
  BY <1>0, <1>7 DEF PlaceFits
<1>8. CASE logoutAll(r) /\ At(r, "members")
  <2>1. /\ UNCHANGED <<kind, user, raced, logged, sess, index>> /\ req[r].pc = "members"
        /\ doomed' = [doomed EXCEPT ![r] = Live] /\ GotoWith(r, "delSessions", req[r].sid, index)
    BY <1>8 DEF logoutAll, met, fixed, At
  <2>2. /\ req[r].sid \in Ids \cup {none} /\ index \in Values
        /\ kind[r] = "refresh" => req[r].sid \in Ids
    BY <1>0, <1>2, <2>1 DEF ReqType, Values, MemoryFits, SessionKinds
  <2>3. Becomes(r, "delSessions", req[r].sid, index, none)
    BY <1>0, <1>3, <2>1, <2>2, GotoWithEffect DEF Pcs
  <2>4. IndexComplete' BY <1>0, <2>1 DEF IndexComplete, Live
  <2>5. Fits(r)'
    <3>1. PlaceFits(r)' BY <1>7, <2>1, <2>3 DEF Becomes, PlaceFits
    <3>2. MemoryFits(r)'
      BY <1>2, <1>7, <2>1, <2>2, <2>3 DEF Becomes, MemoryFits, AsksOtp, Verifies, SessionKinds
    <3>3. AnswerFits(r)' BY <1>1, <2>3 DEF Becomes, AnswerFits
    <3> QED BY <3>1, <3>2, <3>3 DEF Fits
  <2>6. doomed'[r] = Live /\ \A q \in Requests \ {r} : doomed'[q] = doomed[q]
    BY <1>2, <2>1 DEF Live
  <2>7. RevocationGoesOn(r)' /\ ~Owner(r)'
    BY <1>0, <1>1, <1>2, <2>1, <2>3
       DEF Becomes, RevocationGoesOn, Cleared, Owner, Live, IndexComplete
  <2>8. \A i \in Ids : Names(r, i)' => Names(r, i) \/ ~Unused(i)
    BY <1>1, <2>1, <2>3, <2>6 DEF Becomes, Names, Unused, Live
  <2> QED BY <1>2, <1>7, <2>1, <2>3, <2>4, <2>5, <2>6, <2>7, <2>8, SessionsGo DEF Becomes
<1>9. CASE logoutAll(r) /\ At(r, "delSessions")
  <2>1. /\ UNCHANGED <<kind, user, raced, index, doomed, logged>> /\ req[r].pc = "delSessions"
        /\ sess' = [s \in Ids |-> IF s \in req[r].val THEN none ELSE sess[s]]
        /\ Goto(r, "delIndex")
    BY <1>2, <1>9 DEF logoutAll, fixed, At
  <2>2. Becomes(r, "delIndex", req[r].sid, req[r].val, none)
    BY <1>0, <1>3, <2>1, GotoEffect DEF Pcs
  <2>3. kind[r] = "refresh" => req[r].sid \in Ids
    BY <1>0, <2>1 DEF MemoryFits, SessionKinds
  <2>4. /\ sess' \in [Ids -> Ids \cup {none}] /\ Live' \subseteq Live \ req[r].val
        /\ \A i \in Ids : sess'[i] = sess[i] \/ sess'[i] = none
    BY <1>2, <2>1 DEF Live
  <2>5. Live' \subseteq raced BY <1>0, <2>1, <2>4 DEF RevocationGoesOn
  <2>6. IndexComplete' BY <2>1, <2>5 DEF IndexComplete
  <2>7. Fits(r)'
    <3>1. PlaceFits(r)' BY <1>7, <2>1, <2>2 DEF Becomes, PlaceFits
    <3>2. MemoryFits(r)'
      BY <1>7, <2>1, <2>2, <2>3 DEF Becomes, MemoryFits, AsksOtp, Verifies, SessionKinds
    <3>3. AnswerFits(r)' BY <1>1, <2>2 DEF Becomes, AnswerFits
    <3> QED BY <3>1, <3>2, <3>3 DEF Fits
  <2>9. RevocationGoesOn(r)' /\ ~Owner(r)'
    BY <1>1, <2>1, <2>2, <2>5 DEF Becomes, RevocationGoesOn, Owner
  <2>10. \A i \in Ids : Names(r, i)' => Names(r, i)
    BY <1>1, <2>1, <2>2 DEF Becomes, Names
  <2> QED BY <1>7, <2>1, <2>2, <2>4, <2>6, <2>7, <2>9, <2>10, SessionsGo DEF Becomes
<1>10. CASE logoutAll(r) /\ At(r, "delIndex")
  <2>1. /\ UNCHANGED <<kind, user, raced, sess, doomed, logged>> /\ req[r].pc = "delIndex"
        /\ index' = {}
        /\ \/ kind[r] = "resetPassword" /\ Goto(r, "delToken")
           \/ Reply(r, "loggedOut")
    BY <1>2, <1>10 DEF logoutAll, fixed, At
  <2>2. PICK pc \in {"delToken", "done"}, answer \in {none, "loggedOut"} :
          /\ Becomes(r, pc, req[r].sid, req[r].val, answer)
          /\ answer = "loggedOut" <=> pc = "done"
          /\ pc = "delToken" => kind[r] = "resetPassword"
    <3>1. CASE kind[r] = "resetPassword" /\ Goto(r, "delToken")
      BY <1>0, <1>1, <1>3, <2>1, <3>1, GotoEffect DEF Pcs
    <3>2. CASE Reply(r, "loggedOut")
      BY <1>0, <2>1, <3>2, ReplyEffect DEF Replies
    <3> QED BY <2>1, <3>1, <3>2
  <2>3. kind[r] = "refresh" => req[r].sid \in Ids
    BY <1>0, <2>1 DEF MemoryFits, SessionKinds
  <2>4. Live \subseteq raced BY <1>0, <2>1 DEF RevocationGoesOn
  <2>5. IndexComplete' BY <2>1, <2>4 DEF IndexComplete, Live
  <2>6. Fits(r)'
    <3>1. PlaceFits(r)' BY <2>1, <2>2 DEF Becomes, PlaceFits
    <3>2. MemoryFits(r)'
      BY <1>7, <2>1, <2>2, <2>3 DEF Becomes, MemoryFits, AsksOtp, Verifies, SessionKinds
    <3>3. AnswerFits(r)' BY <1>1, <2>2 DEF Becomes, AnswerFits
    <3> QED BY <3>1, <3>2, <3>3 DEF Fits
  <2>7. RevocationGoesOn(r)' /\ ~Owner(r)'
    BY <1>1, <1>3, <2>1, <2>2, <2>4 DEF Becomes, RevocationGoesOn, Cleared, Owner, Live
  <2>8. \A i \in Ids : Names(r, i)' => Names(r, i)
    BY <1>1, <2>1, <2>2 DEF Becomes, Names
  <2> QED BY <1>2, <1>7, <2>1, <2>2, <2>5, <2>6, <2>7, <2>8, SessionsGo DEF Becomes
<1>11. CASE revocationFails(r)
  <2>1. /\ UNCHANGED <<kind, user, raced, sess, index>>
        /\ req[r].pc \in {"delSession", "delEntry", "members", "delSessions", "delIndex"}
        /\ doomed' = [doomed EXCEPT ![r] = met(r)]
        /\ \/ Reply(r, "loggedOut") /\ logged' = logged \cup {r}
           \/ Reply(r, "error") /\ logged' = logged
    BY <1>11 DEF revocationFails, fixed
  <2>2. PICK answer \in {"loggedOut", "error"} :
          /\ Becomes(r, "done", req[r].sid, req[r].val, answer)
          /\ answer = "loggedOut" => r \in logged'
    BY <1>0, <2>1, ReplyEffect DEF Replies
  <2>3. IndexComplete' BY <1>0, <2>1 DEF IndexComplete, Live
  <2>4. /\ kind[r] # "login" /\ kind[r] # "verifyOtp" /\ ~AsksOtp(r) /\ ~Verifies(r)
        /\ req[r].pc = "delSession" => kind[r] \in SessionKinds /\ req[r].sid \in Ids
    BY <1>0, <2>1 DEF PlaceFits, MemoryFits, AsksOtp, Verifies, SessionKinds
  <2>5. Fits(r)'
    <3>1. PlaceFits(r)' BY <2>2 DEF Becomes, PlaceFits
    <3>2. MemoryFits(r)' BY <2>1, <2>2, <2>4 DEF Becomes, MemoryFits, AsksOtp, Verifies
    <3>3. AnswerFits(r)' BY <2>2 DEF Becomes, AnswerFits
    <3> QED BY <3>1, <3>2, <3>3 DEF Fits
  <2>6. RevocationGoesOn(r)' /\ ~Owner(r)'
    BY <2>2 DEF Becomes, RevocationGoesOn, Cleared, Owner
  <2>7. doomed'[r] = met(r) /\ \A q \in Requests \ {r} : doomed'[q] = doomed[q]
    BY <1>2, <2>1
  <2>8. \A i \in Ids : Names(r, i)' => Names(r, i) \/ ~Unused(i)
    <3> SUFFICES ASSUME NEW i \in Ids, i \in met(r) PROVE Names(r, i) \/ ~Unused(i)
      BY <2>1, <2>2, <2>7 DEF Becomes, Names
    <3> QED BY <2>4 DEF met, At, Names, Unused, Live
  <2> QED BY <1>2, <2>1, <2>2, <2>3, <2>4, <2>5, <2>6, <2>7, <2>8, SessionsGo DEF Becomes
<1> QED BY <1>4, <1>5, <1>6, <1>8, <1>9, <1>10, <1>11 DEF logout, logoutAll

LEMMA SessionSteps ==
  ASSUME StoresTyped, RequestsFit, NEW r \in Requests, SessionStep(r)
  PROVE  RequestsFit'
<1>0. PlaceFits(r) /\ MemoryFits(r) /\ req \in ReqType /\ RevocationGoesOn(r)
  BY DEF RequestsFit, Fits
<1>1. none \notin {"registered", "loggedOut", "reset", "sent", "loggedIn", "refreshed"}
  BY NoneAssumption DEF Replies
<1>3. CASE login(r) \/ loginSession(r) \/ publishUserLoggedIn(r) BY <1>3, LoginSteps
<1>4. CASE refresh(r) BY <1>4, RefreshStep
<1>5. CASE \/ refreshUser(r) \/ rotate(r) \/ sessionMiddleware(r) \/ getSessions(r)
           \/ revokeSession(r) \/ logoutByRefreshToken(r)
  BY <1>5, ReadingSteps
<1>6. CASE removeStale(r) \/ logout(r) \/ logoutAll(r) \/ revocationFails(r) BY <1>6, DeletingSteps
<1>7. ASSUME kind[r] \in {"logoutAll", "resetPassword"}, req[r].pc # "done",
             UNCHANGED <<kind, sessVars>>, user' = none => user = none, Goto(r, "members")
      PROVE  RequestsFit'
  <2>1. Becomes(r, "members", req[r].sid, req[r].val, none)
    BY <1>0, <1>7, GotoEffect, UnderWay DEF Pcs
  <2> QED BY <1>7, <2>1, RevocationBegins
<1>8. CASE logoutAllByRefreshToken(r)
  BY <1>7, <1>8 DEF logoutAllByRefreshToken, fixed, At
<1>9. CASE resetPassword(r)
  <2>1. kind[r] = "resetPassword" /\ UNCHANGED <<kind, sessVars>>
    BY <1>9 DEF resetPassword, fixed
  <2>2. {"expired", "notFound"} \subseteq PlainReplies BY DEF PlainReplies, Replies
  <2>3. ASSUME At(r, "start"), UNCHANGED user, NEW t \in resetTokens,
               IF t \in token THEN GotoWith(r, "update", t, none) ELSE Reply(r, "expired")
        PROVE  RequestsFit'
    <3>1. CASE Reply(r, "expired") BY <2>1, <2>2, <2>3, <3>1, Ends
    <3>2. CASE GotoWith(r, "update", t, none)
      <4>1. t \in Ids /\ none \in Values /\ "update" \in Pcs
        BY DEF resetTokens, Answered, Ids, Values, Pcs
      <4>2. Becomes(r, "update", t, none, none)
        BY <1>0, <2>3, <3>2, <4>1, GotoWithEffect, UnderWay DEF At
      <4>3. Fits(r)'
        BY <1>1, <2>1, <4>2 DEF Becomes, Fits, PlaceFits, MemoryFits, AnswerFits, AsksOtp, Verifies,
                                SessionKinds
      <4>4. RevocationGoesOn(r)' /\ ~Owner(r)'
        BY <1>1, <2>1, <4>2 DEF Becomes, RevocationGoesOn, Cleared, Owner, sessVars
      <4>5. \A s : Names(r, s)' => Names(r, s)
        BY <1>1, <2>1, <4>2 DEF Becomes, Names, SessionKinds, sessVars
      <4> QED BY <2>1, <2>3, <4>2, <4>3, <4>4, <4>5, RequestMoves DEF Becomes
    <3> QED BY <2>3, <3>1, <3>2
  <2>4. CASE At(r, "update") /\ UNCHANGED user /\ Reply(r, "notFound")
    BY <2>1, <2>2, <2>4, Ends
  <2>5. CASE At(r, "update") /\ user' = r /\ Goto(r, "members")
    <3>1. user' # none BY <2>5, NoneAssumption
    <3> QED BY <1>7, <2>1, <2>5, <3>1 DEF At
  <2>6. CASE At(r, "delToken") /\ Reply(r, "reset") /\ UNCHANGED user
    <3>1. Becomes(r, "done", req[r].sid, req[r].val, "reset")
      BY <1>0, <2>6, ReplyEffect, UnderWay DEF Replies, At
    <3>2. Fits(r)'
      BY <2>1, <3>1 DEF Becomes, Fits, PlaceFits, MemoryFits, AnswerFits, AsksOtp, Verifies,
                        SessionKinds
    <3>3. RevocationGoesOn(r)' /\ ~Owner(r)'
      BY <1>0, <2>1, <2>6, <3>1
         DEF Becomes, RevocationGoesOn, Cleared, Owner, Live, At, sessVars
    <3>4. \A s : Names(r, s)' => Names(r, s)
      BY <2>1, <3>1 DEF Becomes, Names, SessionKinds, sessVars
    <3> QED BY <2>1, <2>6, <3>1, <3>2, <3>3, <3>4, RequestMoves DEF Becomes
  <2> QED BY <1>9, <2>3, <2>4, <2>5, <2>6 DEF resetPassword
<1> QED BY <1>3, <1>4, <1>5, <1>6, <1>8, <1>9 DEF SessionStep

(* Every step keeps what is claimed of the requests.                       *)
LEMMA NextRequests ==
  ASSUME StoresTyped, RequestsFit, [Next]_vars
  PROVE  RequestsFit'
<1>1. ASSUME UNCHANGED <<kind, req, user, sessVars>>
      PROVE  RequestsFit'
  BY <1>1 DEF RequestsFit, Fits, PlaceFits, MemoryFits, AnswerFits, OwnerHasAccount,
              OneOwner, NoneRegistered, RegistrationIsNew, LoginIsNew, RevocationGoesOn,
              IndexComplete, Owner, Cleared, Unused, Names, Live, OtpIds, AsksOtp, Verifies, sessVars
<1>2. ASSUME NEW r \in Requests, Mail(r)
      PROVE  RequestsFit'
  BY <1>1, <1>2 DEF Mail, OtpRequestedConsumer, UserLoggedInConsumer, processOtp, processWelcome,
                    reserveIfNew, emailProvider, fixed
<1>3. ASSUME NEW r \in Requests, publishFails(r)
      PROVE  RequestsFit'
  <2>1. UNCHANGED <<kind, user, sessVars>> /\ req[r].pc = "publish"
    BY <1>3 DEF publishFails, fixed, At
  <2>2. CASE Goto(r, "rollback")
    <3>1. AsksOtp(r) /\ req[r].sid \in OtpIds
      BY <2>1 DEF RequestsFit, Fits, PlaceFits, MemoryFits
    <3> QED BY <2>1, <2>2, <3>1, AskerGoes DEF OtpPlaces
  <2>3. CASE Reply(r, "publishFailed")
    <3>1. "publishFailed" \in PlainReplies BY DEF PlainReplies, Replies
    <3> QED BY <2>1, <2>3, <3>1, Ends
  <2> QED BY <1>3, <2>2, <2>3 DEF publishFails
<1>4. ASSUME NEW r \in Requests, crash(r)
      PROVE  RequestsFit'
  <2>1. "crashed" \in PlainReplies BY DEF PlainReplies, Replies
  <2> QED BY <1>4, <2>1, Ends DEF crash, fixed
<1>5. CASE rateExpires \/ otpExpires
  BY <1>1, <1>5 DEF rateExpires, otpExpires, fixed
<1>6. CASE UNCHANGED vars
  BY <1>1, <1>6 DEF vars
<1> QED BY <1>2, <1>3, <1>4, <1>5, <1>6, OtpSteps, VerifySteps, SessionSteps DEF Next

-----------------------------------------------------------------------------
(* The stores.                                                             *)

LEMMA OtpStores ==
  ASSUME StoresTyped, RequestsFit, [Next]_vars
  PROVE  /\ user' \in Ids \cup {none} /\ otpSession' \in OtpIds \cup {none}
         /\ rate' \in [n : 0..(RateMax + 1), ttl : BOOLEAN]
         /\ otp' \in [Ids -> Ids \cup {none}] /\ regData' \in [Ids -> Ids \cup {none}]
         /\ attempts' \in [Ids -> 0..(AttemptLimit + 1)]
         /\ resetFor' \subseteq Ids /\ token' \subseteq Ids
<1> USE AccountBoundsAssumption DEF StoresTyped
<1> DEFINE Typed == /\ user' \in Ids \cup {none} /\ otpSession' \in OtpIds \cup {none}
                    /\ rate' \in [n : 0..(RateMax + 1), ttl : BOOLEAN]
                    /\ otp' \in [Ids -> Ids \cup {none}] /\ regData' \in [Ids -> Ids \cup {none}]
                    /\ attempts' \in [Ids -> 0..(AttemptLimit + 1)]
                    /\ resetFor' \subseteq Ids /\ token' \subseteq Ids
<1>0. Requests \subseteq Ids /\ OtpIds \subseteq Ids BY DEF Ids, OtpIds
<1>1. UNCHANGED <<user, otpVars>> => Typed BY DEF otpVars
<1>8. \A s : [attempts EXCEPT ![s] = 0] \in [Ids -> 0..(AttemptLimit + 1)]
  <2>1. 0 \in 0..(AttemptLimit + 1) OBVIOUS
  <2> QED BY <2>1
<1> SUFFICES ASSUME NEW r \in Requests,
                    OtpStep(r) \/ VerifyStep(r) \/ SessionStep(r)
             PROVE  Typed
  <2>1. ASSUME NEW e \in Requests, Mail(e) \/ publishFails(e) \/ crash(e)
        PROVE  Typed
    BY <1>1, <2>1 DEF Mail, OtpRequestedConsumer, UserLoggedInConsumer, processOtp, processWelcome,
                      reserveIfNew, emailProvider, publishFails, crash
  <2>2. CASE rateExpires
    <3>1. rate' \in [n : 0..(RateMax + 1), ttl : BOOLEAN] BY <2>2 DEF rateExpires
    <3> QED BY <2>2, <3>1 DEF rateExpires
  <2>3. CASE otpExpires
    <3>1. /\ user' = user /\ rate' = rate /\ token' = token /\ otpSession' = none
          /\ otp' = [otp EXCEPT ![otpSession] = none] /\ regData' = [regData EXCEPT ![otpSession] = none]
          /\ attempts' = [attempts EXCEPT ![otpSession] = 0] /\ resetFor' = resetFor \ {otpSession}
      BY <2>3 DEF otpExpires
    <3> QED BY <1>8, <3>1
  <2>4. CASE UNCHANGED vars BY <1>1, <2>4 DEF vars
  <2> QED BY <2>1, <2>2, <2>3, <2>4 DEF Next
<1>2. PlaceFits(r) /\ MemoryFits(r) BY DEF RequestsFit, Fits
<1>3. AsksOtp(r) /\ req[r].pc \notin {"start", "find", "refused", "done"} => req[r].sid \in OtpIds
  BY <1>2 DEF MemoryFits
<1>4. Verifies(r) /\ req[r].pc \notin {"start", "done"} => req[r].sid \in OtpIds
  BY <1>2 DEF MemoryFits
<1>5. CASE OtpStep(r)
  <2>1. CASE sendOtp(r) \/ forgotPassword(r) \/ findExistingOtpSession(r) \/ retryOtp(r)
             \/ publishOtpRequested(r)
    BY <1>1, <2>1 DEF sendOtp, forgotPassword, findExistingOtpSession, retryOtp, publishOtpRequested
  <2>2. CASE incrRate(r)
    <3>1. rate' \in [n : 0..(RateMax + 1), ttl : BOOLEAN] BY <2>2 DEF incrRate, Limited
    <3> QED BY <2>2, <3>1 DEF incrRate
  <2>3. CASE ensureTtl(r)
    <3>1. rate' \in [n : 0..(RateMax + 1), ttl : BOOLEAN] BY <2>3 DEF ensureTtl, needsTtl
    <3> QED BY <2>3, <3>1 DEF ensureTtl
  <2>4. CASE storeOtp(r) BY <1>0, <2>4 DEF storeOtp
  <2>5. CASE storeOtpSession(r)
    <3>1. req[r].sid \in OtpIds BY <1>2, <1>3, <2>5 DEF storeOtpSession, At, PlaceFits
    <3> QED BY <2>5, <3>1 DEF storeOtpSession
  <2>6. CASE replaceOtp(r) BY <1>8, <2>6 DEF replaceOtp
  <2>7. CASE storeRegistrationSession(r)
    <3>1. req[r].sid \in Ids BY <1>0, <1>2, <1>3, <2>7 DEF storeRegistrationSession, At, PlaceFits
    <3> QED BY <1>0, <2>7, <3>1 DEF storeRegistrationSession
  <2>8. CASE rollbackOtp(r) BY <1>8, <2>8 DEF rollbackOtp
  <2>9. CASE deleteOtpSession(r) BY <2>9 DEF deleteOtpSession
  <2> QED BY <1>5, <2>1, <2>2, <2>3, <2>4, <2>5, <2>6, <2>7, <2>8, <2>9 DEF OtpStep
<1>6. CASE VerifyStep(r)
  <2>1. CASE verifyOtp(r) \/ VerifyPasswordResetOtp(r) \/ compareOtp(r) \/ getRegistrationSession(r)
             \/ registerUser(r)
    BY <1>1, <2>1 DEF verifyOtp, VerifyPasswordResetOtp, compareOtp, getRegistrationSession, registerUser
  <2>2. CASE incrAttempts(r)
    <3>1. req[r].sid \in Ids BY <1>0, <1>4, <2>2 DEF incrAttempts, At
    <3>2. attempts' \in [Ids -> 0..(AttemptLimit + 1)] BY <2>2, <3>1 DEF incrAttempts
    <3> QED BY <2>2, <3>2 DEF incrAttempts
  <2>3. CASE lockOtp(r) BY <2>3 DEF lockOtp
  <2>4. CASE clearAttempts(r) BY <1>8, <2>4 DEF clearAttempts
  <2>5. CASE createUser(r)
    <3>1. req[r].val \in Ids BY <1>2, <2>5 DEF createUser, At, MemoryFits
    <3> QED BY <2>5, <3>1 DEF createUser, otpVars
  <2>6. CASE deleteUser(r) BY <2>6 DEF deleteUser, otpVars
  <2>7. CASE deleteRegistrationSession(r) BY <1>8, <2>7 DEF deleteRegistrationSession
  <2>8. CASE issueResetToken(r) BY <1>0, <2>8 DEF issueResetToken
  <2> QED BY <1>6, <2>1, <2>2, <2>3, <2>4, <2>5, <2>6, <2>7, <2>8 DEF VerifyStep
<1>7. CASE SessionStep(r)
  <2>1. CASE resetPassword(r) BY <1>0, <2>1 DEF resetPassword
  <2>2. CASE ~resetPassword(r)
    BY <1>1, <1>7, <2>2 DEF SessionStep, login, loginSession, publishUserLoggedIn, refresh, refreshUser,
                            rotate, sessionMiddleware, getSessions, removeStale, revokeSession,
                            logoutByRefreshToken, logout, logoutAllByRefreshToken, logoutAll,
                            revocationFails
  <2> QED BY <2>1, <2>2
<1> QED BY <1>5, <1>6, <1>7

LEMMA SessionStores ==
  ASSUME StoresTyped, RequestsFit, [Next]_vars
  PROVE  /\ sess' \in [Ids -> Ids \cup {none}] /\ index' \subseteq Ids
         /\ raced' \subseteq Ids /\ doomed' \in [Requests -> SUBSET Ids]
         /\ logged' \subseteq Requests
<1> USE DEF StoresTyped
<1> DEFINE Typed == /\ sess' \in [Ids -> Ids \cup {none}] /\ index' \subseteq Ids
                    /\ raced' \subseteq Ids /\ doomed' \in [Requests -> SUBSET Ids]
                    /\ logged' \subseteq Requests
<1>0. Requests \subseteq Ids /\ OtpIds \subseteq Ids BY DEF Ids, OtpIds
<1>1. UNCHANGED sessVars => Typed BY DEF sessVars
<1>2. CASE UNCHANGED vars \/ rateExpires \/ otpExpires
  BY <1>1, <1>2 DEF vars, rateExpires, otpExpires
<1>3. ASSUME NEW r \in Requests, OtpStep(r) \/ Mail(r) \/ publishFails(r) \/ crash(r)
      PROVE  Typed
  <2>1. CASE OtpStep(r)
    BY <1>1, <2>1 DEF OtpStep, sendOtp, forgotPassword, findExistingOtpSession, incrRate, ensureTtl,
                      retryOtp, storeOtp, storeOtpSession, replaceOtp, storeRegistrationSession,
                      publishOtpRequested, rollbackOtp, deleteOtpSession
  <2>2. CASE Mail(r) \/ publishFails(r) \/ crash(r)
    BY <1>1, <2>2 DEF Mail, OtpRequestedConsumer, UserLoggedInConsumer, processOtp, processWelcome,
                      reserveIfNew, emailProvider, publishFails, crash
  <2> QED BY <1>3, <2>1, <2>2
<1>4. ASSUME NEW r \in Requests, NEW s \in Ids, createAuthSession(r, s), UNCHANGED <<doomed, logged>>
      PROVE  Typed
  BY <1>0, <1>4 DEF createAuthSession
<1>5. ASSUME NEW r \in Requests, NEW s \in Ids, NEW t \in Ids, rewrite(s, t)
      PROVE  Typed
  BY <1>5 DEF rewrite
<1>6. ASSUME NEW r \in Requests PROVE PlaceFits(r) /\ MemoryFits(r)
  BY DEF RequestsFit, Fits
<1>7. ASSUME NEW r \in Requests, VerifyStep(r)
      PROVE  Typed
  <2>1. CASE registerUser(r)
    <3>1. req[r].sid \in Ids
      BY <1>0, <1>6, <2>1 DEF registerUser, At, PlaceFits, MemoryFits, Verifies
    <3> QED BY <1>1, <1>4, <2>1, <3>1 DEF registerUser
  <2>2. CASE ~registerUser(r)
    BY <1>1, <1>7, <2>2 DEF VerifyStep, verifyOtp, VerifyPasswordResetOtp, incrAttempts, lockOtp,
                            compareOtp, clearAttempts, getRegistrationSession, createUser, deleteUser,
                            deleteRegistrationSession, issueResetToken
  <2> QED BY <2>1, <2>2
<1>8. ASSUME NEW r \in Requests, SessionStep(r)
      PROVE  Typed
  <2>1. CASE loginSession(r) BY <1>0, <1>1, <1>4, <2>1 DEF loginSession
  <2>2. CASE rotate(r)
    <3>1. req[r].sid \in Ids
      BY <1>6, <2>2 DEF rotate, At, PlaceFits, MemoryFits, SessionKinds
    <3> QED BY <1>0, <1>5, <2>2, <3>1 DEF rotate
  <2>3. CASE sessionMiddleware(r)
    <3>1. CASE UNCHANGED sessVars BY <1>1, <3>1
    <3>2. CASE At(r, "touch") /\ rewrite(req[r].sid, req[r].val)
      <4>1. req[r].sid \in Ids /\ req[r].val \in Ids
        BY <1>6, <3>2 DEF At, PlaceFits, MemoryFits, SessionKinds
      <4> QED BY <1>5, <3>2, <4>1
    <3> QED BY <2>3, <3>1, <3>2 DEF sessionMiddleware
  <2>0. met(r) \subseteq Ids \/ (At(r, "delSession") /\ req[r].sid \notin Ids)
    BY DEF met, Live
  <2>4. CASE removeStale(r) BY <2>4 DEF removeStale
  <2>5. CASE logout(r) \/ logoutAll(r) \/ revocationFails(r)
    <3>1. At(r, "delSession") => req[r].sid \in Ids
      BY <1>6 DEF At, PlaceFits, MemoryFits, SessionKinds
    <3>2. met(r) \in SUBSET Ids
      BY <2>0, <3>1
    <3>3. CASE logout(r)
      BY <3>1, <3>2, <3>3 DEF logout, At
    <3>4. CASE logoutAll(r)
      BY <3>2, <3>4 DEF logoutAll
    <3>5. CASE revocationFails(r)
      BY <3>2, <3>5 DEF revocationFails
    <3> QED BY <2>5, <3>3, <3>4, <3>5
  <2>7. CASE \/ login(r) \/ publishUserLoggedIn(r) \/ refresh(r) \/ refreshUser(r) \/ getSessions(r)
             \/ revokeSession(r) \/ logoutByRefreshToken(r) \/ logoutAllByRefreshToken(r)
             \/ resetPassword(r)
    BY <1>1, <2>7 DEF login, publishUserLoggedIn, refresh, refreshUser, getSessions, revokeSession,
                      logoutByRefreshToken, logoutAllByRefreshToken, resetPassword
  <2> QED BY <1>8, <2>1, <2>2, <2>3, <2>4, <2>5, <2>7 DEF SessionStep
<1> QED BY <1>2, <1>3, <1>7, <1>8 DEF Next

LEMMA MailStores ==
  ASSUME StoresTyped, [Next]_vars
  PROVE  /\ published' \subseteq Requests /\ mailed' \subseteq published'
         /\ lease' \in [Ids -> {none, "reserved", "processed"}]
         /\ faults' \in 0..MaxFaults
<1> USE AccountBoundsAssumption DEF StoresTyped
<1> DEFINE Typed == /\ published' \subseteq Requests /\ mailed' \subseteq published'
                    /\ lease' \in [Ids -> {none, "reserved", "processed"}]
                    /\ faults' \in 0..MaxFaults
<1>0. Fault => faults' \in 0..MaxFaults BY DEF Fault
<1>1. UNCHANGED mailVars /\ (Fault \/ UNCHANGED faults) => Typed BY <1>0 DEF mailVars
<1>2. CASE UNCHANGED vars \/ rateExpires \/ otpExpires
  BY <1>1, <1>2 DEF vars, rateExpires, otpExpires
<1>3. ASSUME NEW r \in Requests, OtpStep(r) PROVE Typed
  <2>1. CASE publishOtpRequested(r) BY <2>1 DEF publishOtpRequested
  <2>2. CASE ~publishOtpRequested(r)
    BY <1>1, <1>3, <2>2 DEF OtpStep, sendOtp, forgotPassword, findExistingOtpSession, incrRate, ensureTtl,
                            retryOtp, storeOtp, storeOtpSession, replaceOtp, storeRegistrationSession,
                            rollbackOtp, deleteOtpSession
  <2> QED BY <2>1, <2>2
<1>4. ASSUME NEW r \in Requests, VerifyStep(r) PROVE Typed
  BY <1>1, <1>4 DEF VerifyStep, verifyOtp, VerifyPasswordResetOtp, incrAttempts, lockOtp, compareOtp,
                    clearAttempts, getRegistrationSession, createUser, registerUser, deleteUser,
                    deleteRegistrationSession, issueResetToken
<1>5. ASSUME NEW r \in Requests, SessionStep(r) PROVE Typed
  <2>1. CASE publishUserLoggedIn(r) BY <2>1 DEF publishUserLoggedIn
  <2>2. CASE ~publishUserLoggedIn(r)
    BY <1>1, <1>5, <2>2 DEF SessionStep, login, loginSession, refresh, refreshUser, rotate,
                            sessionMiddleware, getSessions, removeStale, revokeSession,
                            logoutByRefreshToken, logout, logoutAllByRefreshToken, logoutAll,
                            revocationFails, resetPassword
  <2> QED BY <2>1, <2>2
<1>6. ASSUME NEW r \in Requests, publishFails(r) \/ crash(r) PROVE Typed
  BY <1>1, <1>6 DEF publishFails, crash
<1>7. ASSUME NEW e \in Requests, Mail(e) PROVE Typed
  <2>1. e \in published /\ published' = published /\ (reserveIfNew(e) \/ emailProvider(e))
    BY <1>7 DEF Mail, OtpRequestedConsumer, UserLoggedInConsumer, processOtp, processWelcome,
                reserveIfNew, emailProvider
  <2>2. CASE reserveIfNew(e) BY <2>1, <2>2 DEF reserveIfNew
  <2>3. CASE emailProvider(e)
    <3>1. mailed' \subseteq published /\ (Fault \/ faults' = faults)
      BY <2>1, <2>3 DEF emailProvider
    <3>2. lease' \in [Ids -> {none, "reserved", "processed"}]
      BY <2>3 DEF emailProvider
    <3> QED BY <1>0, <2>1, <3>1, <3>2
  <2> QED BY <2>1, <2>2, <2>3
<1> QED BY <1>2, <1>3, <1>4, <1>5, <1>6, <1>7 DEF Next

(* Every step keeps the types of the stores.                               *)
LEMMA NextStores ==
  ASSUME StoresTyped, RequestsFit, [Next]_vars
  PROVE  StoresTyped'
<1>1. kind' = kind /\ known' = known
  <2>1. \A r \in Requests : OtpStep(r) => UNCHANGED fixed
    BY DEF OtpStep, sendOtp, forgotPassword, findExistingOtpSession, incrRate, ensureTtl, retryOtp,
           storeOtp, storeOtpSession, replaceOtp, storeRegistrationSession, publishOtpRequested,
           rollbackOtp, deleteOtpSession
  <2>2. \A r \in Requests : VerifyStep(r) => UNCHANGED fixed
    BY DEF VerifyStep, verifyOtp, VerifyPasswordResetOtp, incrAttempts, lockOtp, compareOtp,
           clearAttempts, getRegistrationSession, createUser, registerUser, deleteUser,
           deleteRegistrationSession, issueResetToken
  <2>3. \A r \in Requests : SessionStep(r) => UNCHANGED fixed
    BY DEF SessionStep, login, loginSession, publishUserLoggedIn, refresh, refreshUser, rotate,
           sessionMiddleware, getSessions, removeStale, revokeSession, logoutByRefreshToken, logout,
           logoutAllByRefreshToken, logoutAll, revocationFails, resetPassword
  <2>4. \A r \in Requests : Mail(r) \/ publishFails(r) \/ crash(r) => UNCHANGED fixed
    BY DEF Mail, OtpRequestedConsumer, UserLoggedInConsumer, processOtp, processWelcome,
           reserveIfNew, emailProvider, publishFails, crash
  <2>5. rateExpires \/ otpExpires \/ UNCHANGED vars => UNCHANGED fixed
    BY DEF rateExpires, otpExpires, vars, fixed
  <2> QED BY <2>1, <2>2, <2>3, <2>4, <2>5 DEF Next, fixed
<1>2. OtpIds' = OtpIds BY <1>1 DEF OtpIds, AsksOtp
<1> QED BY <1>1, <1>2, OtpStores, SessionStores, MailStores DEF StoresTyped

-----------------------------------------------------------------------------
(* The invariants.                                                         *)

LEMMA InitAccount ==
  ASSUME Init
  PROVE  StoresTyped /\ RequestsFit
<1> USE NoneAssumption, RequestsAssumption, AccountBoundsAssumption
<1>1. StoresTyped
  BY DEF Init, StoresTyped, Ids
<1>2. req \in ReqType
  BY DEF Init, ReqType, Pcs, Values
<1>3. ASSUME NEW r \in Requests
      PROVE  /\ req[r].pc = "start" /\ req[r].sid = none /\ req[r].val = none
             /\ req[r].reply = none /\ doomed[r] = {}
             /\ r \in Ids /\ r # 0 /\ none # r /\ none \notin Ids
  BY DEF Init, Ids
<1>4. none \notin {"sent", "registered", "loggedIn", "refreshed", "loggedOut", "reset"}
  BY DEF Replies
<1>5. ASSUME NEW r \in Requests
      PROVE  Fits(r) /\ ~Owner(r) /\ RevocationGoesOn(r) /\ \A s \in Ids : ~Names(r, s)
  <2>1. Fits(r)
    BY <1>3, <1>4 DEF Fits, PlaceFits, MemoryFits, AnswerFits
  <2>2. ~Owner(r) /\ RevocationGoesOn(r)
    BY <1>3, <1>4 DEF Init, Owner, RevocationGoesOn, Cleared
  <2>3. \A s \in Ids : ~Names(r, s)
    BY <1>3, <1>4 DEF Names
  <2> QED BY <2>1, <2>2, <2>3
<1>6. \A s \in Requests : Unused(s)
  BY <1>3, <1>5 DEF Init, Unused
<1>7. OneOwner /\ NoneRegistered
  BY <1>5, <1>6 DEF OneOwner, NoneRegistered, OtpIds
<1>8. \A r \in Requests : OwnerHasAccount(r) /\ RegistrationIsNew(r) /\ LoginIsNew(r)
  BY <1>3, <1>5, <1>6 DEF OwnerHasAccount, RegistrationIsNew, LoginIsNew
<1>9. IndexComplete
  BY DEF Init, IndexComplete, Live, Ids
<1> QED BY <1>1, <1>2, <1>5, <1>7, <1>8, <1>9 DEF RequestsFit

LEMMA AccountAlways == Spec => []AccountInv
<1>1. Init => AccountInv BY InitAccount DEF AccountInv
<1>2. AccountInv /\ [Next]_vars => AccountInv' BY NextStores, NextRequests DEF AccountInv
<1> QED BY <1>1, <1>2, PTL DEF Spec

(* Every variable of user-service's model keeps its type in every          *)
(* behaviour.                                                              *)
THEOREM AccountTypes == Spec => []TypeOK
<1>1. AccountInv => TypeOK
  <2> SUFFICES ASSUME AccountInv PROVE TypeOK OBVIOUS
  <2>1. OtpIds \subseteq Ids BY DEF OtpIds, Ids
  <2>2. ASSUME NEW r \in Requests
        PROVE  /\ req[r].pc \in Pcs /\ req[r].sid \in Ids \cup {none}
               /\ req[r].reply \in Replies \cup {none}
    <3>1. req \in ReqType BY DEF AccountInv, RequestsFit
    <3> QED BY <3>1 DEF ReqType
  <2> QED BY <2>1, <2>2 DEF AccountInv, StoresTyped, TypeOK
<1> QED BY <1>1, AccountAlways, PTL

(* Whoever was told that it is registered has an account, for any number   *)
(* of verifications of the same or other OTPs, each of which may fail      *)
(* after it has made the account and take it back (registerUser and its    *)
(* rollback).                                                              *)
THEOREM RegistrationsStay == Spec => []RegisteredKeepsAccount
<1>1. AccountInv => RegisteredKeepsAccount
  <2> SUFFICES ASSUME AccountInv, NEW r \in Requests, req[r].reply = "registered"
               PROVE  user # none
    BY DEF RegisteredKeepsAccount
  <2> QED BY DEF AccountInv, RequestsFit, Fits, AnswerFits, OwnerHasAccount, Owner
<1> QED BY <1>1, AccountAlways, PTL

(* When a logout, a logout of all devices or a password reset is done and  *)
(* none of its calls failed, the sessions it met are gone, for any number  *)
(* of logins, refreshes and revocations at once, but for those that a      *)
(* request with an older read brought back after their deletion (refresh,  *)
(* the session middleware) or that were created while the index was being  *)
(* deleted (createAuthSession).                                            *)
THEOREM RevocationsHold == Spec => []RevocationHolds
<1>1. AccountInv => RevocationHolds
  <2> SUFFICES ASSUME AccountInv, NEW r \in Requests \ logged, req[r].reply \in {"loggedOut", "reset"}
               PROVE  doomed[r] \cap Live \subseteq raced
    BY DEF RevocationHolds, Survivors
  <2> QED BY DEF AccountInv, RequestsFit, RevocationGoesOn, Cleared
<1> QED BY <1>1, AccountAlways, PTL
=============================================================================
