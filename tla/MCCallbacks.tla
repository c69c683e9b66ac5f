----------------------------- MODULE MCCallbacks -----------------------------
(* Instances of Callbacks for TLC: two payments, and the payloads that matter. *)
EXTENDS Callbacks, TLC

CONSTANTS c1, c2, r1, r2

ThreadSymmetry == Permutations(Threads)

MCCheckouts == {c1, c2}
MCAmount == [c \in MCCheckouts |-> 100]
MCPhone == [c \in MCCheckouts |-> 7]

Success(c, r) == [checkout |-> c, code |-> 0, receipt |-> r,
                  amount |-> 100, phone |-> 7, trusted |-> TRUE]
Failure(c) == [checkout |-> c, code |-> 1032, receipt |-> None,
               amount |-> None, phone |-> None, trusted |-> TRUE]

\* A success and a failure of the same payment, a success of another one, one that
\* is not trusted, one with the wrong amount or phone, and one without its metadata.
MCPayloads ==
    {Success(c1, r1), Failure(c1), Success(c2, r2),
     [Success(c1, r2) EXCEPT !.trusted = FALSE],
     [Success(c1, r2) EXCEPT !.amount = 1],
     [Success(c1, r1) EXCEPT !.phone = 8],
     [Success(c1, r1) EXCEPT !.phone = None]}

\* One payment and payloads about it, among them one without a result code, but none
\* that agrees in checkout id, code and receipt with a good one and so shares its
\* replay key.
SerialCheckouts == {c1}
SerialAmount == [c \in SerialCheckouts |-> 100]
SerialPhone == [c \in SerialCheckouts |-> 7]
SerialPayloads ==
    {Success(c1, r1), Failure(c1),
     [Success(c1, r2) EXCEPT !.trusted = FALSE],
     [Success(c1, r2) EXCEPT !.amount = 1],
     [Failure(c1) EXCEPT !.code = None]}

=============================================================================
