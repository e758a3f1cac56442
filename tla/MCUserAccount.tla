---------------------------- MODULE MCUserAccount ----------------------------
(* Up to four requests of one user, in the bags where they meet.           *)
EXTENDS UserAccount, Sequences

MCRequests == 1..4

(* The kinds in q; the other requests stay idle. *)
Bag(q) == [r \in MCRequests |-> IF r <= Len(q) THEN q[r] ELSE "idle"]

MCScenarios ==
  { Bag(q) : q \in {
      \* the rate limit
      <<"sendOtp", "sendOtp">>,
      <<"sendOtp", "forgotPassword">>,
      <<"forgotPassword", "forgotPassword">>,
      \* verifications of one OTP, and a new OTP beside one
      <<"sendOtp", "verifyOtp", "verifyOtp">>,
      <<"sendOtp", "verifyOtp", "sendOtp">>,
      \* a reset beside a login
      <<"forgotPassword", "verifyResetOtp", "resetPassword", "login">>,
      \* sessions
      <<"login", "logoutAll", "getSessions">>,
      <<"login", "refresh", "logout">>,
      <<"refresh", "refresh", "revokeSession">>,
      <<"login", "revokeSession", "logoutAll">> } }
=============================================================================
