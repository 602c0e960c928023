------------------------------- MODULE Leitura -------------------------------
(***************************************************************************)
(* What a question put to the collection of ads promises.  A screen asks   *)
(* for the ads; it is told, at most once, either what the board held at    *)
(* one moment, or what the phone remembers of it, or that the question     *)
(* failed.  Nothing is said of connections, targets or caches.             *)
(***************************************************************************)
EXTENDS Naturals, Sequences

CONSTANTS Ads,          \* the documents of the collection
          MaxCalls      \* how many questions are asked

VARIABLES board,        \* board[v]: what each ad says after the v-th change
          own,          \* the write of the phone that asks, or NoWrite
          asked,        \* the questions, in their order
          answer        \* answer[c]: what question c was told, or Waiting

vars == <<board, own, asked, answer>>

Gone == 0                                  \* the text of an ad that is not there
NoWrite == [made |-> FALSE, at |-> 0, acked |-> FALSE]
Waiting == [kind |-> "waiting"]
Calls == 1..MaxCalls
Now == Len(board)

\* A question asked while others wait may be answered together with them, and so
\* knows no more than the oldest of them: the version it asks for, and whether the
\* phone had been told what became of its own write.
Known == LET waiting == {c \in 1..Len(asked) : answer[c] = Waiting}
             oldest == CHOOSE c \in waiting : \A e \in waiting : c <= e
         IN IF waiting = {} THEN [since |-> Now, acked |-> own.acked] ELSE asked[oldest].known

Init == /\ Len(board) = 1
        /\ own = NoWrite
        /\ asked = <<>>
        /\ answer = [c \in Calls |-> Waiting]

\* Somebody publishes, rewrites or takes down an ad; the phone's own write is
\* entered, becomes a change of the board or is refused, and the phone is told which.
Change == /\ Len(board') = Now + 1
          /\ \E d \in Ads :
                board' = Append(board, [board[Now] EXCEPT ![d] = board'[Now + 1][d]])
          /\ UNCHANGED <<own, asked, answer>>
Write == /\ ~own.made /\ own'.made /\ own'.at = 0 /\ ~own'.acked
         /\ UNCHANGED <<board, asked, answer>>
Commit == /\ own.made /\ own.at = 0 /\ ~own.acked
          /\ board' = Append(board, [board[Now] EXCEPT ![own.ad] = own.data])
          /\ own' = [own EXCEPT !.at = Now + 1]
          /\ UNCHANGED <<asked, answer>>

Acknowledge == /\ own.at # 0 /\ own' = [own EXCEPT !.acked = TRUE]
               /\ UNCHANGED <<board, asked, answer>>

Refuse == /\ own.made /\ own.at = 0
          /\ own' = [own EXCEPT !.acked = TRUE]
          /\ UNCHANGED <<board, asked, answer>>
Refused == own.acked /\ own.at = 0

Ask == /\ Len(asked) < MaxCalls
       /\ asked' = Append(asked, [known |-> Known, own |-> own.made])
       /\ UNCHANGED <<board, own, answer>>

Told(c, a) == /\ answer[c] = Waiting
              /\ answer' = [answer EXCEPT ![c] = a]
              /\ UNCHANGED <<board, own, asked>>

\* What the board held at one moment since the question. The phone's own write may
\* be on top of it unless the phone knew, when it asked, that the board holds it or has
\* refused it; it must be there when it came before the question, the board does not
\* hold it and it is not refused.
AnswerServer(c) ==
  \E v \in asked[c].known.since .. Now :
     LET settled == Refused \/ (own.at # 0 /\ own.at <= v)
     IN \/ /\ own.made /\ ~(settled /\ asked[c].known.acked)
           /\ Told(c, [kind |-> "server", docs |-> [board[v] EXCEPT ![own.ad] = own.data]])
        \/ /\ settled \/ ~asked[c].own
           /\ Told(c, [kind |-> "server", docs |-> board[v]])

\* What the phone remembers: of each ad something it did say once.
Remembered(d, text) == \/ text = Gone
                       \/ \E v \in 1..Now : text = board[v][d]
                       \/ own.made /\ own.ad = d /\ text = own.data
AnswerCache(c) ==
  /\ answer[c] = Waiting /\ answer'[c].kind = "cache"
  /\ \A d \in Ads : Remembered(d, answer'[c].docs[d])
  /\ Told(c, [kind |-> "cache", docs |-> answer'[c].docs])

AnswerError(c) == Told(c, [kind |-> "error"])

Next == \/ Change \/ Write \/ Commit \/ Acknowledge \/ Refuse \/ Ask
        \/ \E c \in 1..Len(asked) : AnswerServer(c) \/ AnswerCache(c) \/ AnswerError(c)

Spec == Init /\ [][Next]_vars
=============================================================================
