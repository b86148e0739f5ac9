------------------------------ MODULE ApiClient ------------------------------
(***************************************************************************)
(* The FerrVault API calls of one reconcile pass: ferrvault.Client's retry *)
(* loop, doWithRetry, under the deadline the controller puts on the pass.  *)
(* A pass makes its calls one after the other and stops at the first that  *)
(* fails; an OIDC connection exchanges a token before it reveals.          *)
(*                                                                         *)
(* Time is counted in milliseconds and only grows where the code waits:    *)
(* for an answer, and between attempts.                                    *)
(***************************************************************************)
EXTENDS Integers, Sequences, SequencesExt, FiniteSetsExt

CONSTANTS
    Policies,           \* the retry policies a client may be built with
    Passes,             \* the sequences of endpoints a pass may call
    Statuses,           \* HTTP status codes a server answers with
    Durations,          \* times after which an answer, or a refusal, comes
    RequestTimeout,     \* http.Client.Timeout
    ReconcileTimeouts,  \* deadlines a pass may have, zero being its start
    ProbeTimeout        \* what a probe is given, within that deadline

Endpoints == {"probe", "oidc-exchange", "bulk-reveal", "vault-reveal"}

ASSUME ClientAssumption ==
    /\ \A p \in Policies :
         p.max \in Int /\ p.jitter \in 0..100 /\ p.backoff \in Seq(Nat)
    /\ Passes \subseteq Seq(Endpoints)
    /\ Statuses \subseteq 100..599
    /\ Durations \subseteq Nat
    /\ RequestTimeout \in Nat \ {0} /\ ProbeTimeout \in Nat \ {0}
    /\ ReconcileTimeouts \subseteq Nat \ {0}

VARIABLES
    policy,     \* the client's retry policy
    timeout,    \* --reconcile-timeout
    todo,       \* the endpoints the pass has yet to call, the current first
    pc,         \* "check", "send", "wait" or "done"
    attempt,    \* of the current call, from 1
    err,        \* how its last attempt went
    elapsed,    \* time since the pass began
    began,      \* and its value when the current call began
    answers,    \* history: what the answers to the current call were
    result      \* of the last call that returned: its error and the attempts
                \* that error carries, 0 when it carries none

config == <<policy, timeout>>
vars == <<config, todo, pc, attempt, err, elapsed, began, answers, result>>

-----------------------------------------------------------------------------
(* Errors and delays *)

ErrorKinds == {"ok", "transport", "api5xx", "api4xx", "rateLimited", "auth", "notFound",
               "undecodable"}

(* The classify functions of the four calls, IsRateLimited included; the probe *)
(* does not look at the body.                                                  *)
Classify(endpoint, status, decodes) ==
    CASE status = 200 /\ (decodes \/ endpoint = "probe") -> "ok"
      [] status = 200 -> "undecodable"
      [] status \in 500..599 -> "api5xx"
      [] status = 429 -> "rateLimited"
      [] status = 401 /\ endpoint # "probe" -> "auth"
      [] status = 403 /\ endpoint \in {"bulk-reveal", "vault-reveal"} -> "auth"
      [] status = 404 /\ endpoint \in {"bulk-reveal", "vault-reveal"} -> "notFound"
      [] OTHER -> "api4xx"

(* Mutant: being told to slow down is a reason to try again. *)
RetriableWhenLimited(e) == e \in {"transport", "api5xx", "rateLimited"}

(* isRetriable *)
IsRetriable(e) == e \in {"transport", "api5xx"}

(* Mutant: the number of attempts is left as it was when the error was made. *)
NotAnnotated(e, attempts) == 0

(* annotateAttempts: only TransportError and APIError carry a count. *)
Annotated(e, attempts) ==
    IF e \in {"transport", "api5xx", "api4xx", "rateLimited"} THEN attempts ELSE 0

(* Mutant: the schedule is read one entry late. *)
BackoffLate(p, failed) ==
    IF p.backoff = <<>> THEN 0 ELSE p.backoff[Min({failed + 1, Len(p.backoff)})]

(* backoffFor without its jitter: the delay after attempt number "failed" *)
BackoffBase(p, failed) ==
    IF p.backoff = <<>> THEN 0 ELSE p.backoff[Min({failed, Len(p.backoff)})]

(* The ends and the middle of the jitter's range, in hundredths. *)
BackoffFor(p, failed) ==
    {(BackoffBase(p, failed) * m) \div 100 : m \in {100 - p.jitter, 100, 100 + p.jitter}}

(* doWithRetry makes one attempt at least. *)
MaxAttempts(p) == IF p.max < 1 THEN 1 ELSE p.max

(* RetryPolicy.LongestCall, which does not count that one *)
LongestCall(p) ==
    p.max * RequestTimeout
    + FoldLeft(+, 0, [i \in 1..(p.max - 1) |->
        IF p.backoff = <<>> THEN 0
        ELSE (p.backoff[Min({i, Len(p.backoff)})] * (100 + p.jitter)) \div 100])

TypeOK ==
    /\ policy \in Policies /\ timeout \in ReconcileTimeouts
    /\ todo \in Seq(Endpoints)
    /\ pc \in {"check", "send", "wait", "done"}
    /\ attempt \in 1..MaxAttempts(policy)
    /\ err \in ErrorKinds
    /\ elapsed \in 0..timeout /\ began \in 0..elapsed
    /\ answers \in Seq(ErrorKinds)
    /\ result.err \in ErrorKinds \cup {"context"} /\ result.attempts \in 0..MaxAttempts(policy)

-----------------------------------------------------------------------------
(* A pass *)

(* validateReconcileTimeout, of the policy that clients are built with *)
Accepted(d) == d >= LongestCall(policy)

Init ==
    /\ policy \in Policies
    /\ timeout \in {d \in ReconcileTimeouts : Accepted(d)}
    /\ todo \in Passes
    /\ pc = "check"
    /\ attempt = 1
    /\ err = "ok"
    /\ elapsed = 0 /\ began = 0
    /\ answers = <<>>
    /\ result = [err |-> "ok", attempts |-> 0]

(* The deadline of the current call's context. *)
Deadline ==
    IF Head(todo) = "probe" THEN Min({timeout, began + ProbeTimeout})
                            ELSE timeout

(* doWithRetry returns e: the pass goes on to its next call, or ends. *)
Return(e, attempts) ==
    /\ result' = [err |-> e, attempts |-> attempts]
    /\ IF e = "ok" /\ Len(todo) > 1
       THEN /\ todo' = Tail(todo)
            /\ pc' = "check" /\ attempt' = 1
            /\ began' = elapsed' /\ answers' = <<>>
       ELSE /\ pc' = "done"
            /\ UNCHANGED <<todo, attempt, began>>

(* Mutant: the loop waits for a deadline that has passed to pass. *)
SpinOnContext ==
    /\ pc = "check" /\ elapsed < Deadline
    /\ pc' = "send"
    /\ UNCHANGED <<config, todo, attempt, err, elapsed, began, answers, result>>

(* ctx.Err() before an attempt *)
CheckContext ==
    /\ pc = "check"
    /\ IF elapsed = Deadline
       THEN Return("context", 0) /\ UNCHANGED answers
       ELSE pc' = "send" /\ UNCHANGED <<todo, attempt, began, answers, result>>
    /\ UNCHANGED <<config, err, elapsed>>

(* Mutant: the last attempt is not the last. *)
RetryPastTheCap(e) ==
    IF e = "ok" \/ ~IsRetriable(e) \/ attempt > MaxAttempts(policy)
    THEN Return(e, Annotated(e, attempt))
    ELSE pc' = "wait" /\ UNCHANGED <<todo, attempt, began, result>>

(* What the loop does with the error of an attempt. *)
Judge(e) ==
    IF e = "ok" \/ ~IsRetriable(e) \/ attempt = MaxAttempts(policy)
    THEN Return(e, Annotated(e, attempt))
    ELSE pc' = "wait" /\ UNCHANGED <<todo, attempt, began, result>>

(* Mutant: an http.Client without a timeout. *)
UntilTheDeadline == Deadline - elapsed

(* An attempt is cut off by the client's timeout or by the pass's deadline. *)
Patience == Min({RequestTimeout, Deadline - elapsed})

Answered ==
    /\ pc = "send"
    /\ \E status \in Statuses, decodes \in BOOLEAN, d \in Durations :
         /\ d < Patience
         /\ elapsed' = elapsed + d
         /\ err' = Classify(Head(todo), status, decodes)
         /\ Judge(err')
         /\ answers' = IF err' = "ok" /\ Len(todo) > 1 THEN <<>> ELSE Append(answers, err')
    /\ UNCHANGED config

(* Refused, reset or cut off: no status is read. *)
Unanswered ==
    /\ pc = "send"
    /\ \E d \in {x \in Durations : x < Patience} \cup {Patience} :
         elapsed' = elapsed + d
    /\ err' = "transport"
    /\ Judge("transport")
    /\ UNCHANGED <<config, answers>>

(* The select between the timer and ctx.Done; a delay of zero skips it. *)
Wait ==
    /\ pc = "wait"
    /\ \E delay \in BackoffFor(policy, attempt) :
         \/ /\ delay = 0 \/ elapsed + delay <= Deadline
            /\ elapsed' = elapsed + delay
            /\ attempt' = attempt + 1
            /\ pc' = "check"
            /\ UNCHANGED <<todo, began, result>>
         \/ /\ delay > 0 /\ elapsed + delay >= Deadline
            /\ elapsed' = Deadline
            /\ Return("context", 0)
    /\ UNCHANGED <<config, err, answers>>

Next == CheckContext \/ Answered \/ Unanswered \/ Wait

Spec == Init /\ [][Next]_vars

(* Requests are answered, refused or cut off, and timers fire. *)
FairSpec == Spec /\ WF_vars(Next)

-----------------------------------------------------------------------------
(* Properties *)

(***************************************************************************)
(* validateReconcileTimeout relies on it: no call takes longer than        *)
(* LongestCall says, whatever is slow, refused, retried or jittered, with  *)
(* any policy that asks for an attempt.                                    *)
(***************************************************************************)
WithinLongestCall == policy.max >= 1 => elapsed - began <= LongestCall(policy)

(***************************************************************************)
(* "Anything shorter cancels healthy reveals", says validateReconcileTimeout *)
(* of LongestCall, and what it accepts does not: a call that has that long *)
(* when it begins, as the first of a pass has unless it is a probe, with a *)
(* deadline of its own, can use every one of its attempts in full, and     *)
(* does not return the context's error.                                    *)
(***************************************************************************)
DeadlineSparesCalls ==
    policy.max >= 1 /\ began + LongestCall(policy) <= Deadline =>
        /\ pc = "send" => Deadline - elapsed >= RequestTimeout
        /\ result.err # "context"

(***************************************************************************)
(* What a finished call reports is what the server said last: a verdict    *)
(* ends the call at once, and is never lost to a retry or to the deadline. *)
(***************************************************************************)
VerdictIsFinal ==
    LET verdicts == {i \in 1..Len(answers) : answers[i] # "api5xx"}
    IN  verdicts # {} => /\ pc = "done" /\ verdicts = {Len(answers)}
                         /\ result.err = Last(answers)

(***************************************************************************)
(* A failed call that carries a count carries the number of requests sent, *)
(* one per attempt.                                                        *)
(***************************************************************************)
AttemptsReported ==
    pc = "done" /\ result.err \in {"transport", "api5xx", "api4xx", "rateLimited"} =>
        /\ result.attempts = attempt
        /\ Len(answers) <= result.attempts
        /\ result.err # "transport" => Len(answers) >= 1

(* Every pass gets through its calls, or fails, within its deadline. *)
CallsReturn == <>(pc = "done")
=============================================================================
