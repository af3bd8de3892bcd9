----------------------------- MODULE TossClient -----------------------------
(***************************************************************************)
(* The Toss client (toss/client.go and Snapshot of toss/trading.go): the   *)
(* access token it keeps, the retries of its reads, how it sorts answers,  *)
(* and the brokerage account its calls are bound to.                       *)
(*                                                                         *)
(* How long the throttle of a rate limit group holds a call back is left   *)
(* open: any number of ticks.                                              *)
(***************************************************************************)
EXTENDS Calls

CONSTANTS
  Lead,       \* tokenLead, in ticks
  Lifetimes,  \* lifetimes Toss gives a token, in ticks
  RetryAfter, \* maxRetryAfter, in ticks
  Accounts,   \* brokerage accounts the login may list
  NoAccount   \* no account chosen

ASSUME TossAssumption ==
  /\ Lead \in Nat /\ Lifetimes \subseteq Nat /\ RetryAfter \in Nat
  /\ NoAccount \notin Accounts
  \* A token outlasts its own delivery and one request, with or without the lead.
  /\ 2 * Timeout < Lead
  /\ \A life \in Lifetimes : 1 + 2 * Timeout < life

VARIABLES
  lease,   \* ticks until the client asks for another token; 0 without one
  life,    \* ticks until the token expires, 0 once Toss has refused it
  revoked, \* Toss gave it up early, and the client has not been told
  seq,     \* the account every account-scoped call carries
  used     \* for checking: accounts this process named in a call

token == <<lease, life, revoked>>
toss  == <<token, seq, used>>

Toss == call.client = "toss"

\* Reads are attempted three times, writes once.
Attempts == IF Placing THEN 1 ELSE 3

MayRetry == call.attempt < Attempts

Retry(stage, left) ==
  /\ call' = [call EXCEPT !.attempt = IF @ < 3 THEN @ + 1 ELSE @, !.stage = stage, !.left = left]
  /\ UNCHANGED <<fate, said>>

-----------------------------------------------------------------------------
(* accessToken.                                                            *)

AskToken ==
  /\ Toss /\ At("throttle") /\ Allowed
  /\ lease = 0
  /\ Move("issuing", Timeout)
  /\ UNCHANGED <<fate, said, toss>>

\* Mutant: the token is kept as long as Toss said.
LeaseFor_Whole(given) == given

\* A second at least, however short the lifetime.
LeaseFor(given) == IF given > Lead THEN given - Lead ELSE 1

\* The lifetime runs since some moment while the answer was on its way.
TokenIssued ==
  /\ Toss /\ At("issuing")
  /\ \E given \in Lifetimes, late \in 0..(Timeout - call.left) :
       lease' = LeaseFor(given) /\ life' = given - late
  /\ revoked' = FALSE
  /\ Move("authorized", 0)
  /\ UNCHANGED <<fate, said, seq, used>>

TokenNotIssued ==
  /\ Toss /\ At("issuing")
  /\ FailsUnsent
  /\ UNCHANGED toss

Revoke ==
  /\ lease > 0 \/ (Toss /\ At("sending"))
  /\ ~revoked
  /\ revoked' = TRUE
  /\ UNCHANGED <<asking, lease, life, seq, used>>

-----------------------------------------------------------------------------
(* request and attempt.                                                    *)

HasToken == lease > 0

Authorized == (At("throttle") /\ HasToken /\ Allowed) \/ At("authorized")

\* Listing the accounts names none; every other call does.
Scoped == call.what # "accounts"

TossSends ==
  /\ Toss /\ Authorized
  /\ Scoped => seq # NoAccount
  /\ Leaves
  /\ used' = IF Scoped THEN used \cup {seq} ELSE used
  /\ UNCHANGED <<token, seq>>

NoAccountSelected ==
  /\ Toss /\ Authorized
  /\ Scoped /\ seq = NoAccount
  /\ FailsUnsent
  /\ UNCHANGED toss

\* Mutant: Toss still deciding is taken for a refusal.
IsAmbiguous_InProgress(answer) == Placing /\ answer \in {"none", "garbled", "5xx"}

\* The order may exist, or appear yet.
IsAmbiguous(answer) == Placing /\ answer \in {"none", "garbled", "5xx", "in-progress"}

\* Mutant: whatever account stands alone in the list is taken.
Picks_Again(listed) ==
  IF Cardinality(listed) = 1 THEN CHOOSE a \in listed : TRUE ELSE seq

\* Snapshot: an account is chosen once, and only when there is just one.
Picks(listed) ==
  IF seq = NoAccount /\ Cardinality(listed) = 1 THEN CHOOSE a \in listed : TRUE ELSE seq

TossOK ==
  /\ Toss /\ At("sending") /\ "2xx" \in Answers
  /\ IF call.what = "accounts"
     THEN \E listed \in SUBSET Accounts :
            /\ seq' = Picks(listed)
            /\ IF seq' \in listed THEN Succeeds ELSE Fails(FALSE)
     ELSE Succeeds /\ UNCHANGED seq
  /\ UNCHANGED <<token, used>>

Invalidate == lease' = 0

\* expired-token, invalid-token: the client knows, whatever the reason was.
Unauthorized ==
  /\ Toss /\ At("sending")
  /\ revoked \/ life = 0
  /\ Placing => fate[call.order] = "refused"
  /\ life' = 0 /\ revoked' = FALSE
  /\ Invalidate
  /\ IF MayRetry THEN Retry("throttle", 0) ELSE Fails(FALSE)
  /\ UNCHANGED <<seq, used>>

TossBusy ==
  /\ Toss /\ At("sending") /\ "429" \in Answers
  /\ IF MayRetry THEN \E wait \in 0..RetryAfter : Retry("sleep", wait) ELSE Fails(FALSE)
  /\ UNCHANGED toss

TossFails ==
  /\ Toss /\ At("sending")
  /\ \E answer \in Answers \ {"2xx", "429"} : Fails(IsAmbiguous(answer))
  /\ UNCHANGED toss

WakesUp ==
  /\ Toss /\ At("sleep") /\ call.left = 0
  /\ Move("throttle", 0)
  /\ UNCHANGED <<fate, said, toss>>

TossBlocked == Toss /\ Blocked /\ UNCHANGED toss

TossStep ==
  \/ AskToken \/ TokenIssued \/ TokenNotIssued \/ TossBlocked
  \/ TossSends \/ NoAccountSelected
  \/ TossOK \/ Unauthorized \/ TossBusy \/ TossFails \/ WakesUp

\* A new process has no token and no account (none is configured).
TossInit ==
  /\ lease = 0 /\ life = 0 /\ revoked = FALSE
  /\ seq = NoAccount /\ used = {}

TossTypeOK ==
  /\ lease \in Nat /\ life \in Nat /\ revoked \in BOOLEAN
  /\ seq \in Accounts \cup {NoAccount} /\ used \subseteq Accounts

-----------------------------------------------------------------------------
(* Correctness.                                                            *)

\* No request leaves with a token Toss has refused before (invalidate), and
\* none outlives the token it carries (tokenLead): only a token given up early
\* can fail a request.
TokenIsGood == Toss /\ At("sending") => life > 0

\* All calls of one process go to one account, whatever the login comes to
\* list: balances are never read from one and orders sent to another (Snapshot).
OneAccount == Cardinality(used) <= 1
=============================================================================
