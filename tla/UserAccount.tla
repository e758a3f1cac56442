----------------------------- MODULE UserAccount -----------------------------
(***************************************************************************)
(* One user of user-service: registration and password reset by an emailed *)
(* one-time password, login, and the sessions that login creates and that  *)
(* refresh, the session middleware and the logouts change.  User rows are  *)
(* in Postgres, everything else in Redis; each await is a step, and the    *)
(* requests of a behaviour interleave.  notification-service mails what    *)
(* the requests publish.                                                   *)
(*                                                                         *)
(* A request r makes at most one thing of each kind, so r itself stands    *)
(* for the OTP code, the OTP session, the login session, the reset token,  *)
(* the refresh token and the password it makes; 0 stands for the session,  *)
(* the refresh token and the password there at the start.                  *)
(***************************************************************************)
EXTENDS Naturals, FiniteSets

CONSTANTS
  none,          \* no value
  Requests,      \* request numbers, from 1 on
  Scenarios,     \* a scenario gives each request its kind, or "idle"
  RateMax,       \* OTP_RATE_LIMIT_MAX
  AttemptLimit,  \* OTP_ATTEMPT_LIMIT
  MaxFaults      \* bound: crashes and failures in a behaviour

Kinds == {"sendOtp", "forgotPassword", "verifyOtp", "verifyResetOtp", "resetPassword", "login",
          "refresh", "getSessions", "revokeSession", "logout", "logoutAll", "idle"}

(* What a request is answered with; crashed, if with nothing, or with the  *)
(* error of a call to Redis or Postgres that failed.                       *)
Replies == {"conflict", "notFound", "sent", "publishFailed", "expired", "locked", "invalid", "error",
            "registered", "token", "loggedIn", "revoked", "refreshed", "sessions", "loggedOut", "reset",
            "crashed"}

ASSUME RequestsAssumption == Requests \subseteq Nat \ {0} /\ Scenarios \subseteq [Requests -> Kinds]
ASSUME NoneAssumption == none \notin Requests \cup {0} /\ none \notin Replies
ASSUME AccountBoundsAssumption == RateMax \in Nat /\ AttemptLimit \in Nat /\ MaxFaults \in Nat

VARIABLES
  kind,        \* kind[r]: which route request r is
  known,       \* was there an account, with session 0, at the start?
  req,         \* req[r]: where r stands and what it remembers
  user,        \* password of the account; none without an account
  rate,        \* the otp_rate key: its count and whether it has a TTL
  otpSession,  \* the otp_session key of the email
  otp,         \* otp[s]: code stored for OTP session s
  attempts,    \* attempts[s]: the otp_attempts key
  regData,     \* regData[s]: who stored the registration data
  resetFor,    \* OTP sessions with a forgot-password key
  token,       \* password reset tokens
  sess,        \* sess[s]: refresh token of login session s
  index,       \* the user's session index
  raced,       \* sessions a stale write brought back, or created past a revocation
  doomed,      \* doomed[r]: sessions revocation r met
  logged,      \* logouts whose failed revocation was only logged
  published,   \* events published: OTP codes and logins
  lease,       \* lease[e]: idempotency key of the mail for e
  mailed,      \* codes and welcomes mailed
  faults       \* faults so far

otpVars == <<rate, otpSession, otp, attempts, regData, resetFor, token>>
sessVars == <<sess, index, raced, doomed, logged>>
mailVars == <<published, lease, mailed>>
vars == <<kind, known, req, user, otpVars, sessVars, mailVars, faults>>

Ids == Requests \cup {0}
fixed == <<kind, known>>

Live == {s \in Ids : sess[s] # none}

Fault == faults < MaxFaults /\ faults' = faults + 1

Pcs == {"start", "done", "find", "incr", "ttl", "ttlLimited", "refused", "store", "map", "clear",
        "data", "publish", "rollback", "rollbackMap", "read", "attempt", "lock", "compare",
        "matched", "registration", "create", "session", "undo", "cleanup", "cleanupMap", "issue",
        "loginSession", "welcome", "findById", "rotate", "touch", "handler", "srem", "delSession",
        "delEntry", "members", "delSessions", "delIndex", "update", "delToken"}

(* sid is a session or, in a reset, the token; val is what r read last.    *)
TypeOK ==
  /\ kind \in Scenarios /\ known \in BOOLEAN
  /\ \A r \in Requests : /\ req[r].pc \in Pcs /\ req[r].sid \in Ids \cup {none}
                         /\ req[r].reply \in Replies \cup {none}
  /\ user \in Ids \cup {none} /\ otpSession \in Ids \cup {none}
  /\ rate \in [n : 0..(RateMax + 1), ttl : BOOLEAN]
  /\ otp \in [Ids -> Ids \cup {none}] /\ regData \in [Ids -> Ids \cup {none}]
  /\ attempts \in [Ids -> 0..(AttemptLimit + 1)]
  /\ resetFor \subseteq Ids /\ token \subseteq Ids
  /\ sess \in [Ids -> Ids \cup {none}] /\ index \subseteq Ids
  /\ raced \subseteq Ids /\ doomed \in [Requests -> SUBSET Ids] /\ logged \subseteq Requests
  /\ published \subseteq Requests /\ mailed \subseteq published
  /\ lease \in [Ids -> {none, "reserved", "processed"}]
  /\ faults \in 0..MaxFaults

Init ==
  /\ kind \in Scenarios /\ known \in BOOLEAN
  /\ req = [r \in Requests |-> [pc |-> "start", sid |-> none, val |-> none, reply |-> none]]
  /\ user = IF known THEN 0 ELSE none
  /\ rate = [n |-> 0, ttl |-> FALSE]
  /\ otpSession = none
  /\ otp = [s \in Ids |-> none] /\ attempts = [s \in Ids |-> 0]
  /\ regData = [s \in Ids |-> none] /\ resetFor = {} /\ token = {}
  /\ sess = [s \in Ids |-> IF known /\ s = 0 THEN 0 ELSE none]
  /\ index = IF known THEN {0} ELSE {}
  /\ raced = {} /\ doomed = [r \in Requests |-> {}] /\ logged = {}
  /\ published = {} /\ lease = [e \in Ids |-> none] /\ mailed = {}
  /\ faults = 0

(* Request r goes on to pc, or ends with a reply. *)
Goto(r, pc) == req' = [req EXCEPT ![r].pc = pc]
GotoWith(r, pc, sid, val) ==
  req' = [req EXCEPT ![r].pc = pc, ![r].sid = sid, ![r].val = val]
Reply(r, answer) == req' = [req EXCEPT ![r].pc = "done", ![r].reply = answer]

At(r, pc) == req[r].pc = pc

-----------------------------------------------------------------------------
(* Asking for an OTP: sendOtp and forgotPassword.                          *)

AsksOtp(r) == kind[r] \in {"sendOtp", "forgotPassword"}

sendOtp(r) ==
  /\ kind[r] = "sendOtp" /\ At(r, "start")
  /\ IF user # none THEN Reply(r, "conflict") ELSE Goto(r, "find")
  /\ UNCHANGED <<fixed, user, otpVars, sessVars, mailVars, faults>>

forgotPassword(r) ==
  /\ kind[r] = "forgotPassword" /\ At(r, "start")
  /\ IF user = none THEN Reply(r, "notFound") ELSE Goto(r, "find")
  /\ UNCHANGED <<fixed, user, otpVars, sessVars, mailVars, faults>>

(* val says whether the session is reused. *)
findExistingOtpSession(r) ==
  /\ AsksOtp(r) /\ At(r, "find")
  /\ IF otpSession = none THEN GotoWith(r, "incr", r, "new") ELSE GotoWith(r, "incr", otpSession, "old")
  /\ UNCHANGED <<fixed, user, otpVars, sessVars, mailVars, faults>>

Limited == rate.n > RateMax

(* storeOtp and replaceOtp begin with the rate limit; the count stops      *)
(* above the limit here.                                                   *)
incrRate(r) ==
  /\ AsksOtp(r) /\ At(r, "incr")
  /\ rate' = [rate EXCEPT !.n = IF Limited THEN @ ELSE @ + 1]
  /\ Goto(r, IF rate.n + 1 > RateMax THEN "ttlLimited" ELSE "ttl")
  /\ UNCHANGED <<fixed, user, otpSession, otp, attempts, regData, resetFor, token, sessVars, mailVars, faults>>

(* Mutant: the window is started by the first request only. *)
needsTtlFirst == ~rate.ttl /\ rate.n = 1

(* ttl === -1. *)
needsTtl == ~rate.ttl /\ rate.n > 0

ensureTtl(r) ==
  /\ AsksOtp(r) /\ req[r].pc \in {"ttl", "ttlLimited"}
  /\ rate' = [rate EXCEPT !.ttl = @ \/ needsTtl]
  /\ Goto(r, IF At(r, "ttl") THEN "store" ELSE "refused")
  /\ UNCHANGED <<fixed, user, otpSession, otp, attempts, regData, resetFor, token, sessVars, mailVars, faults>>

(* The client asks again. *)
retryOtp(r) ==
  /\ At(r, "refused")
  /\ Goto(r, "start")
  /\ UNCHANGED <<fixed, user, otpVars, sessVars, mailVars, faults>>

storeOtp(r) ==
  /\ At(r, "store")
  /\ otp' = [otp EXCEPT ![req[r].sid] = r]
  /\ Goto(r, "map")
  /\ UNCHANGED <<fixed, user, rate, otpSession, attempts, regData, resetFor, token, sessVars, mailVars, faults>>

storeOtpSession(r) ==
  /\ At(r, "map")
  /\ otpSession' = req[r].sid
  /\ Goto(r, IF req[r].val = "old" THEN "clear" ELSE "data")
  /\ UNCHANGED <<fixed, user, rate, otp, attempts, regData, resetFor, token, sessVars, mailVars, faults>>

(* replaceOtp forgets the attempts on the old code. *)
replaceOtp(r) ==
  /\ At(r, "clear")
  /\ attempts' = [attempts EXCEPT ![req[r].sid] = 0]
  /\ Goto(r, "data")
  /\ UNCHANGED <<fixed, user, rate, otpSession, otp, regData, resetFor, token, sessVars, mailVars, faults>>

storeRegistrationSession(r) ==
  /\ At(r, "data")
  /\ IF kind[r] = "sendOtp"
       THEN regData' = [regData EXCEPT ![req[r].sid] = r] /\ UNCHANGED resetFor
       ELSE resetFor' = resetFor \cup {req[r].sid} /\ UNCHANGED regData
  /\ Goto(r, "publish")
  /\ UNCHANGED <<fixed, user, rate, otpSession, otp, attempts, token, sessVars, mailVars, faults>>

publishOtpRequested(r) ==
  /\ At(r, "publish")
  /\ published' = published \cup {r}
  /\ Reply(r, "sent")
  /\ UNCHANGED <<fixed, user, otpVars, sessVars, lease, mailed, faults>>

(* A publish that fails takes a new session back, in two steps. *)
publishFails(r) ==
  /\ At(r, "publish") /\ Fault
  /\ IF req[r].val = "new" THEN Goto(r, "rollback") ELSE Reply(r, "publishFailed")
  /\ UNCHANGED <<fixed, user, otpVars, sessVars, mailVars>>

rollbackOtp(r) ==
  /\ At(r, "rollback")
  /\ LET s == req[r].sid
     IN  /\ otp' = [otp EXCEPT ![s] = none]
         /\ IF kind[r] = "sendOtp"
              THEN /\ regData' = [regData EXCEPT ![s] = none]
                   /\ attempts' = [attempts EXCEPT ![s] = 0]
                   /\ UNCHANGED resetFor
              ELSE resetFor' = resetFor \ {s} /\ UNCHANGED <<regData, attempts>>
  /\ Goto(r, "rollbackMap")
  /\ UNCHANGED <<fixed, user, rate, otpSession, token, sessVars, mailVars, faults>>

deleteOtpSession(r) ==
  /\ req[r].pc \in {"rollbackMap", "cleanupMap"}
  /\ otpSession' = none
  /\ Reply(r, CASE At(r, "rollbackMap") -> "publishFailed"
                [] kind[r] = "verifyOtp" -> "registered"
                [] OTHER -> "token")
  /\ UNCHANGED <<fixed, user, rate, otp, attempts, regData, resetFor, token, sessVars, mailVars, faults>>

-----------------------------------------------------------------------------
(* Verifying an OTP: verifyAndRegister and VerifyPasswordResetOtp.         *)

Verifies(r) == kind[r] \in {"verifyOtp", "verifyResetOtp"}

(* Requests that ended with this answer. *)
Answered(k, answer) == {q \in Requests : kind[q] = k /\ req[q].reply = answer}

(* The OTP session is a cookie for registrations and part of the answer    *)
(* for resets.                                                             *)
otpSessionCookies == {req[q].sid : q \in Answered("sendOtp", "sent")}
resetSessions == {req[q].sid : q \in Answered("forgotPassword", "sent")}

verifyOtp(r) ==
  /\ kind[r] = "verifyOtp" /\ At(r, "start")
  /\ \E s \in otpSessionCookies :
       IF otp[s] = none THEN Reply(r, "expired") ELSE GotoWith(r, "attempt", s, otp[s])
  /\ UNCHANGED <<fixed, user, otpVars, sessVars, mailVars, faults>>

VerifyPasswordResetOtp(r) ==
  /\ kind[r] = "verifyResetOtp"
  /\ \/ At(r, "start") /\ \E s \in resetSessions :
          IF s \in resetFor THEN GotoWith(r, "read", s, none) ELSE Reply(r, "expired")
     \/ At(r, "read") /\
          IF otp[req[r].sid] = none THEN Reply(r, "expired")
                                    ELSE GotoWith(r, "attempt", req[r].sid, otp[req[r].sid])
  /\ UNCHANGED <<fixed, user, otpVars, sessVars, mailVars, faults>>

incrAttempts(r) ==
  /\ Verifies(r) /\ At(r, "attempt")
  /\ LET s == req[r].sid
         n == IF attempts[s] > AttemptLimit THEN attempts[s] ELSE attempts[s] + 1
     IN  /\ attempts' = [attempts EXCEPT ![s] = n]
         /\ Goto(r, IF n > AttemptLimit THEN "lock" ELSE "compare")
  /\ UNCHANGED <<fixed, user, rate, otpSession, otp, regData, resetFor, token, sessVars, mailVars, faults>>

lockOtp(r) ==
  /\ Verifies(r) /\ At(r, "lock")
  /\ otp' = [otp EXCEPT ![req[r].sid] = none]
  /\ Reply(r, "locked")
  /\ UNCHANGED <<fixed, user, rate, otpSession, attempts, regData, resetFor, token, sessVars, mailVars, faults>>

(* The user types a code from a mail, or a wrong one; it is compared with  *)
(* the hash read before.                                                   *)
compareOtp(r) ==
  /\ Verifies(r) /\ At(r, "compare")
  /\ \/ req[r].val \in mailed /\ Goto(r, "matched")
     \/ Reply(r, "invalid")
  /\ UNCHANGED <<fixed, user, otpVars, sessVars, mailVars, faults>>

clearAttempts(r) ==
  /\ Verifies(r) /\ At(r, "matched")
  /\ attempts' = [attempts EXCEPT ![req[r].sid] = 0]
  /\ Goto(r, IF kind[r] = "verifyOtp" THEN "registration" ELSE "issue")
  /\ UNCHANGED <<fixed, user, rate, otpSession, otp, regData, resetFor, token, sessVars, mailVars, faults>>

getRegistrationSession(r) ==
  /\ At(r, "registration")
  /\ LET s == req[r].sid
     IN  IF regData[s] = none THEN Reply(r, "expired") ELSE GotoWith(r, "create", s, regData[s])
  /\ UNCHANGED <<fixed, user, otpVars, sessVars, mailVars, faults>>

(* Mutant: the rollback covers createUser too. *)
createUserFailsRolledBack(r) == Goto(r, "undo")

(* The email is unique. *)
createUserFails(r) == Reply(r, "error")

createUser(r) ==
  /\ At(r, "create")
  /\ IF user = none
       THEN user' = req[r].val /\ Goto(r, "session")
       ELSE user' = user /\ createUserFails(r)
  /\ UNCHANGED <<fixed, otpVars, sessVars, mailVars, faults>>

(* Revocations that have read the index and not yet deleted it. *)
Revoking == \E q \in Requests : req[q].pc \in {"delSessions", "delIndex"}

(* Mutant: the session is not put on the user's index. *)
createAuthSessionUnindexed(r, s) ==
  /\ sess' = [sess EXCEPT ![s] = r]
  /\ index' = index
  /\ raced' = IF Revoking THEN raced \cup {s} ELSE raced

(* One MULTI sets the session and its entry in the index. *)
createAuthSession(r, s) ==
  /\ sess' = [sess EXCEPT ![s] = r]
  /\ index' = index \cup {s}
  /\ raced' = IF Revoking THEN raced \cup {s} ELSE raced

registerUser(r) ==
  /\ At(r, "session")
  /\ \/ /\ createAuthSession(r, req[r].sid)
        /\ Goto(r, "cleanup") /\ UNCHANGED <<doomed, logged, faults>>
     \/ Fault /\ Goto(r, "undo") /\ UNCHANGED sessVars
  /\ UNCHANGED <<fixed, user, otpVars, mailVars>>

(* The rollback of the account; its own failure is swallowed. *)
deleteUser(r) ==
  /\ At(r, "undo")
  /\ \/ user' = none /\ faults' = faults
     \/ user' = user /\ Fault
  /\ Reply(r, "error")
  /\ UNCHANGED <<fixed, otpVars, sessVars, mailVars>>

deleteRegistrationSession(r) ==
  /\ At(r, "cleanup")
  /\ LET s == req[r].sid
     IN  /\ otp' = [otp EXCEPT ![s] = none]
         /\ attempts' = [attempts EXCEPT ![s] = 0]
         /\ IF kind[r] = "verifyOtp"
              THEN regData' = [regData EXCEPT ![s] = none] /\ UNCHANGED resetFor
              ELSE resetFor' = resetFor \ {s} /\ UNCHANGED regData
  /\ Goto(r, "cleanupMap")
  /\ UNCHANGED <<fixed, user, rate, otpSession, token, sessVars, mailVars, faults>>

issueResetToken(r) ==
  /\ At(r, "issue")
  /\ token' = token \cup {r}
  /\ Goto(r, "cleanup")
  /\ UNCHANGED <<fixed, user, rate, otpSession, otp, attempts, regData, resetFor, sessVars, mailVars, faults>>

-----------------------------------------------------------------------------
(* Sessions.                                                               *)

login(r) ==
  /\ kind[r] = "login" /\ At(r, "start")
  /\ \/ user = none /\ Reply(r, "notFound")
     \/ user # none /\ (Reply(r, "invalid") \/ Goto(r, "loginSession"))
  /\ UNCHANGED <<fixed, user, otpVars, sessVars, mailVars, faults>>

loginSession(r) ==
  /\ At(r, "loginSession")
  /\ \/ /\ createAuthSession(r, r)
        /\ Goto(r, "welcome") /\ UNCHANGED <<doomed, logged, faults>>
     \/ Fault /\ Reply(r, "error") /\ UNCHANGED sessVars
  /\ UNCHANGED <<fixed, user, otpVars, mailVars>>

(* The login succeeds whether or not its event is published. *)
publishUserLoggedIn(r) ==
  /\ At(r, "welcome")
  /\ published' \in {published, published \cup {r}}
  /\ Reply(r, "loggedIn")
  /\ UNCHANGED <<fixed, user, otpVars, sessVars, lease, mailed, faults>>

(* Refresh tokens in clients' cookies, with their session.  A client may   *)
(* present any of them, an older one too.                                  *)
registrationCookies == {<<r, req[r].sid>> : r \in Answered("verifyOtp", "registered")}
loginCookies == {<<r, r>> : r \in Answered("login", "loggedIn")}
refreshCookies == {<<r, req[r].sid>> : r \in Answered("refresh", "refreshed")}

Cookies ==
  (IF known THEN {<<0, 0>>} ELSE {}) \cup registrationCookies \cup loginCookies \cup refreshCookies

(* refresh reads the session; another device's fingerprint logs it out, an *)
(* older token logs out every session.                                     *)
refresh(r) ==
  /\ kind[r] = "refresh" /\ At(r, "start")
  /\ \E c \in Cookies, sameDevice \in BOOLEAN :
       LET t == c[1]
           s == c[2]
       IN  CASE sess[s] = none -> Reply(r, "revoked")
             [] sess[s] # none /\ ~sameDevice -> GotoWith(r, "delSession", s, none)
             [] sess[s] # none /\ sameDevice /\ sess[s] # t -> GotoWith(r, "members", s, none)
             [] OTHER -> GotoWith(r, "findById", s, t)
  /\ UNCHANGED <<fixed, user, otpVars, sessVars, mailVars, faults>>

refreshUser(r) ==
  /\ At(r, "findById")
  /\ IF user = none THEN Reply(r, "invalid") ELSE Goto(r, "rotate")
  /\ UNCHANGED <<fixed, user, otpVars, sessVars, mailVars, faults>>

(* SET of the record read before: a session deleted since is there again.  *)
rewrite(s, t) ==
  /\ sess' = [sess EXCEPT ![s] = t]
  /\ raced' = IF sess[s] = none THEN raced \cup {s} ELSE raced
  /\ UNCHANGED <<index, doomed, logged>>

rotate(r) ==
  /\ At(r, "rotate")
  /\ rewrite(req[r].sid, r)
  /\ Reply(r, "refreshed")
  /\ UNCHANGED <<fixed, user, otpVars, mailVars, faults>>

(* The session middleware before getSessions and revokeSession. *)
sessionMiddleware(r) ==
  /\ kind[r] \in {"getSessions", "revokeSession"}
  /\ \/ /\ At(r, "start")
        /\ \E c \in Cookies :
             IF sess[c[2]] = none THEN Reply(r, "revoked") ELSE GotoWith(r, "touch", c[2], sess[c[2]])
        /\ UNCHANGED sessVars
     \/ At(r, "touch") /\ rewrite(req[r].sid, req[r].val) /\ Goto(r, "handler")
  /\ UNCHANGED <<fixed, user, otpVars, mailVars, faults>>

(* smembers, then a look at each id; val is the set of stale ones. *)
getSessions(r) ==
  /\ kind[r] = "getSessions" /\ At(r, "handler")
  /\ GotoWith(r, "srem", req[r].sid, index \ Live)
  /\ UNCHANGED <<fixed, user, otpVars, sessVars, mailVars, faults>>

removeStale(r) ==
  /\ kind[r] = "getSessions" /\ At(r, "srem")
  /\ index' = index \ req[r].val
  /\ Reply(r, "sessions")
  /\ UNCHANGED <<fixed, user, otpVars, sess, raced, doomed, logged, mailVars, faults>>

revokeSession(r) ==
  /\ kind[r] = "revokeSession" /\ At(r, "handler")
  /\ \E s \in index :
       IF sess[s] = none THEN Reply(r, "revoked") ELSE GotoWith(r, "delSession", s, none)
  /\ UNCHANGED <<fixed, user, otpVars, sessVars, mailVars, faults>>

logoutByRefreshToken(r) ==
  /\ kind[r] = "logout" /\ At(r, "start")
  /\ \E c \in Cookies : GotoWith(r, "delSession", c[2], none)
  /\ UNCHANGED <<fixed, user, otpVars, sessVars, mailVars, faults>>

(* The sessions a revocation meets when its deletion begins. *)
met(r) == IF At(r, "delSession") THEN {req[r].sid} ELSE IF At(r, "members") THEN Live ELSE doomed[r]

(* logout and revokeSession delete the session, then its index entry. *)
logout(r) ==
  /\ doomed' = [doomed EXCEPT ![r] = met(r)]
  /\ LET s == req[r].sid
     IN  \/ /\ At(r, "delSession")
            /\ sess' = [sess EXCEPT ![s] = none]
            /\ Goto(r, "delEntry") /\ UNCHANGED index
         \/ /\ At(r, "delEntry")
            /\ index' = index \ {s}
            /\ Reply(r, "loggedOut") /\ UNCHANGED sess
  /\ UNCHANGED <<fixed, user, otpVars, raced, logged, mailVars, faults>>

logoutAllByRefreshToken(r) ==
  /\ kind[r] = "logoutAll" /\ At(r, "start")
  /\ Cookies # {}
  /\ Goto(r, "members")
  /\ UNCHANGED <<fixed, user, otpVars, sessVars, mailVars, faults>>

(* logoutAll reads the index, deletes those sessions, deletes the index. *)
logoutAll(r) ==
  /\ doomed' = [doomed EXCEPT ![r] = met(r)]
  /\ \/ /\ At(r, "members")
        /\ GotoWith(r, "delSessions", req[r].sid, index) /\ UNCHANGED <<sess, index>>
     \/ /\ At(r, "delSessions")
        /\ sess' = [s \in Ids |-> IF s \in req[r].val THEN none ELSE sess[s]]
        /\ Goto(r, "delIndex") /\ UNCHANGED index
     \/ /\ At(r, "delIndex")
        /\ index' = {}
        /\ IF kind[r] = "resetPassword" THEN Goto(r, "delToken") ELSE Reply(r, "loggedOut")
        /\ UNCHANGED sess
  /\ UNCHANGED <<fixed, user, otpVars, raced, logged, mailVars, faults>>

(* A call to Redis fails on the way: the logout routes log the error and   *)
(* answer as if all went well; any other route answers with an error.      *)
revocationFails(r) ==
  /\ req[r].pc \in {"delSession", "delEntry", "members", "delSessions", "delIndex"} /\ Fault
  /\ doomed' = [doomed EXCEPT ![r] = met(r)]
  /\ IF kind[r] \in {"logout", "logoutAll"}
       THEN Reply(r, "loggedOut") /\ logged' = logged \cup {r}
       ELSE Reply(r, "error") /\ UNCHANGED logged
  /\ UNCHANGED <<fixed, user, otpVars, sess, index, raced, mailVars>>

resetTokens == Answered("verifyResetOtp", "token")

resetPassword(r) ==
  /\ kind[r] = "resetPassword"
  /\ \/ /\ At(r, "start")
        /\ \E t \in resetTokens :
             IF t \in token THEN GotoWith(r, "update", t, none) ELSE Reply(r, "expired")
        /\ UNCHANGED <<user, token>>
     \/ /\ At(r, "update")
        /\ IF user = none THEN user' = user /\ Reply(r, "notFound")
                          ELSE user' = r /\ Goto(r, "members")
        /\ UNCHANGED token
     \/ At(r, "delToken") /\ token' = token \ {req[r].sid} /\ Reply(r, "reset") /\ UNCHANGED user
  /\ UNCHANGED <<fixed, rate, otpSession, otp, attempts, regData, resetFor, sessVars, mailVars, faults>>

-----------------------------------------------------------------------------
(* Time, crashes and mail.                                                 *)

rateExpires ==
  /\ rate.ttl /\ rate.n > 0
  /\ rate' = [n |-> 0, ttl |-> FALSE]
  /\ UNCHANGED <<fixed, req, user, otpSession, otp, attempts, regData, resetFor, token, sessVars, mailVars, faults>>

(* The keys of an OTP session run out together. *)
otpExpires ==
  /\ otpSession # none
  /\ otp' = [otp EXCEPT ![otpSession] = none] /\ attempts' = [attempts EXCEPT ![otpSession] = 0]
  /\ regData' = [regData EXCEPT ![otpSession] = none] /\ resetFor' = resetFor \ {otpSession}
  /\ otpSession' = none
  /\ UNCHANGED <<fixed, req, user, rate, token, sessVars, mailVars, faults>>

(* The process serving r stops. *)
crash(r) ==
  /\ req[r].pc \notin {"start", "done"} /\ Fault
  /\ Reply(r, "crashed")
  /\ UNCHANGED <<fixed, user, otpVars, sessVars, mailVars>>

(* notification-service: the key of the event is reserved, the mail sent,  *)
(* the key kept; a failed send gives it back for the redelivery.           *)
reserveIfNew(e) ==
  /\ lease[e] = none
  /\ lease' = [lease EXCEPT ![e] = "reserved"]
  /\ UNCHANGED <<fixed, req, user, otpVars, sessVars, published, mailed, faults>>

(* A send that timed out may have gone out all the same; one refused for   *)
(* the quota is logged and counts as sent.                                 *)
emailProvider(e) ==
  /\ lease[e] = "reserved"
  /\ \/ mailed' = mailed \cup {e} /\ lease' = [lease EXCEPT ![e] = "processed"] /\ faults' = faults
     \/ Fault /\ mailed' = mailed /\ lease' = [lease EXCEPT ![e] = "processed"]
     \/ Fault /\ mailed' \in {mailed, mailed \cup {e}} /\ lease' = [lease EXCEPT ![e] = none]
  /\ UNCHANGED <<fixed, req, user, otpVars, sessVars, published>>

(* An event older than its TTL is skipped; here any mail may be late.      *)
processOtp(e) == AsksOtp(e) /\ (reserveIfNew(e) \/ emailProvider(e))
processWelcome(e) == kind[e] = "login" /\ (reserveIfNew(e) \/ emailProvider(e))

(* An event whose processing throws is delivered again. *)
OtpRequestedConsumer(e) == e \in published /\ processOtp(e)
UserLoggedInConsumer(e) == e \in published /\ processWelcome(e)

-----------------------------------------------------------------------------
OtpStep(r) ==
  \/ sendOtp(r) \/ forgotPassword(r) \/ findExistingOtpSession(r) \/ incrRate(r) \/ ensureTtl(r)
  \/ retryOtp(r) \/ storeOtp(r) \/ storeOtpSession(r) \/ replaceOtp(r)
  \/ storeRegistrationSession(r) \/ publishOtpRequested(r) \/ rollbackOtp(r) \/ deleteOtpSession(r)
VerifyStep(r) ==
  \/ verifyOtp(r) \/ VerifyPasswordResetOtp(r) \/ incrAttempts(r) \/ lockOtp(r) \/ compareOtp(r)
  \/ clearAttempts(r) \/ getRegistrationSession(r) \/ createUser(r) \/ registerUser(r)
  \/ deleteUser(r) \/ deleteRegistrationSession(r) \/ issueResetToken(r)
SessionStep(r) ==
  \/ login(r) \/ loginSession(r) \/ publishUserLoggedIn(r) \/ refresh(r) \/ refreshUser(r)
  \/ rotate(r) \/ sessionMiddleware(r) \/ getSessions(r) \/ removeStale(r) \/ revokeSession(r)
  \/ logoutByRefreshToken(r) \/ logout(r) \/ logoutAllByRefreshToken(r) \/ logoutAll(r)
  \/ revocationFails(r) \/ resetPassword(r)
Mail(e) == OtpRequestedConsumer(e) \/ UserLoggedInConsumer(e)

Next ==
  \/ \E r \in Requests :
       OtpStep(r) \/ VerifyStep(r) \/ SessionStep(r) \/ Mail(r) \/ publishFails(r) \/ crash(r)
  \/ rateExpires \/ otpExpires

Spec == Init /\ [][Next]_vars

(* A request under way goes on, a refused client asks again, and a key     *)
(* with a TTL runs out.                                                    *)
FairSpec == Spec /\ (\A r \in Requests : WF_vars(OtpStep(r))) /\ WF_vars(rateExpires)

-----------------------------------------------------------------------------
(* Properties.                                                             *)

(* A client that is refused an OTP for the rate limit and asks again gets  *)
(* one in the end, although a crash may have left the counter without a    *)
(* TTL: every later request repairs it (storeOtp and replaceOtp).          *)
OtpServedInTheEnd == \A r \in Requests : At(r, "refused") ~> At(r, "done")

(* Whoever was told that it is registered has an account, whatever other   *)
(* verifications of the same OTP do and roll back (registerUser).          *)
RegisteredKeepsAccount == \A r \in Requests : req[r].reply = "registered" => user # none

(* The sessions of a finished revocation that are there all the same: its  *)
(* reply said that they are gone.                                          *)
Survivors(r) == IF req[r].reply \in {"loggedOut", "reset"} THEN doomed[r] \cap Live ELSE {}

(* When a logout, a logout of all devices or a password reset is done and  *)
(* no call to Redis failed, the sessions it met are gone, but for those    *)
(* that a request which had read them before wrote back, or that were      *)
(* created between its reading and its deletion of the index.              *)
RevocationHolds == \A r \in Requests \ logged : Survivors(r) \subseteq raced
=============================================================================
