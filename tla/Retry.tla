--------------------------------- MODULE Retry ---------------------------------
(***************************************************************************)
(* Which errors of AWS the DynamoDB and S3 clients try again               *)
(* (isRetryableAwsError, executeWithRetry).  How long they wait in between *)
(* (retryBackoffMs) is left out.                                           *)
(***************************************************************************)
EXTENDS Naturals

CONSTANT MaxRetries  \* tuning.maxRetries: the attempts after the first

ASSUME RetryAssumption == MaxRetries \in Nat

\* What the classification looks at: which list has the name and which the code, the
\* status, whether the SDK calls it throttling, whether its message says "retry token".
Lists == {"none", "terminal", "retryable", "other"}
Error ==
  [name : Lists, code : Lists, status : {"none", "forbidden", "retryable", "other"},
   throttling : BOOLEAN, tokenBucket : BOOLEAN]

Plain == [name |-> "other", code |-> "none", status |-> "none",
          throttling |-> FALSE, tokenBucket |-> FALSE]

\* withTimeout rejects with an Error that has a message and nothing else.
Timeout == Plain

\* An object that is not there.
NoSuchKey == [Plain EXCEPT !.status = "other"]

\* A socket error of Node: an Error by name, which has its reason in its code.
SocketError == [Plain EXCEPT !.code = "retryable"]

\* name ?? code: the code counts for errors without a name.
Label(error) == IF error.name # "none" THEN error.name ELSE error.code

\* Failures of authorization come first: nothing else about the error matters then.
IsRetryable(error) ==
  /\ Label(error) # "terminal" /\ error.status # "forbidden"
  /\ \/ error.throttling
     \/ Label(error) = "retryable"
     \/ error.status = "retryable"
     \/ error.tokenBucket

\* There are errors of both sorts.
CanBeRetried == \E error \in Error : IsRetryable(error)
CanBeTerminal == \E error \in Error : ~IsRetryable(error)

AttemptsLeft(attempt) == attempt < MaxRetries
==============================================================================
