------------------------------ MODULE FetchTests ------------------------------
(***************************************************************************)
(* What LSPTestsProvider.fetchTests promises: the calls return in the order *)
(* in which they were made, each with the tests of the text it was given.  *)
(***************************************************************************)
EXTENDS Sequences

CONSTANTS
    Fetchers,  \* who calls it
    Texts,     \* what a document may hold
    NoText     \* no answer yet

VARIABLES
    asks,      \* the calls under way: who and of which text
    answer     \* of a fetcher: the text whose tests it was given last

\* fetchTests(text) is called.
Ask(p, text) == asks' = Append(asks, <<p, text>>)

\* It returns with the tests of that text.
Return(p, text) ==
    /\ asks # <<>> /\ Head(asks) = <<p, text>>
    /\ asks' = Tail(asks)

Init == asks = <<>> /\ answer = [p \in Fetchers |-> NoText]

Next ==
    \E p \in Fetchers, text \in Texts :
        \/ Ask(p, text) /\ UNCHANGED answer
        \/ Return(p, text) /\ answer' = [answer EXCEPT ![p] = text]

Spec == Init /\ [][Next]_<<asks, answer>>

=============================================================================
