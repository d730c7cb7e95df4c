---------------------------- MODULE Conversation -----------------------------
(***************************************************************************)
(* What a connection to the web server promises, in whole messages: one    *)
(* request and its answer, which depends on the request alone, and then    *)
(* texts, heard in batches.  The server acts on the last text of a batch,  *)
(* on no text of a batch that ends with a goodbye, and never on a text     *)
(* twice or out of order.  A text with nothing in it counts as the last    *)
(* one all the same.                                                       *)
(***************************************************************************)
EXTENDS Naturals, Sequences

CONSTANTS Requests, Nothing,
          AnswerTo,        \* the answer to each request, or Nothing
          Upgrade,         \* the answer after which texts are exchanged
          Say, Blank,      \* messages with text, and with none in it
          Pass, Bye        \* messages that are ignored, and the end

VARIABLES request, answer, open, said, heard, acted

convVars == <<request, answer, open, said, heard, acted>>

Init == /\ request = Nothing /\ answer = Nothing /\ open = TRUE
        /\ said = <<>> /\ heard = 0 /\ acted = <<>>

Ask == /\ request = Nothing
       /\ request' \in Requests
       /\ UNCHANGED <<answer, open, said, heard, acted>>

Answer == /\ open /\ request # Nothing /\ answer = Nothing
          /\ AnswerTo[request] # Nothing
          /\ answer' = AnswerTo[request]
          /\ open' = (answer' = Upgrade)
          /\ UNCHANGED <<request, said, heard, acted>>

Speak == /\ answer = Upgrade
         /\ \E kind \in {Say, Blank, Pass, Bye} : said' = Append(said, kind)
         /\ UNCHANGED <<request, answer, open, heard, acted>>

\* The batch is what follows the messages heard so far, up to m.
Texts(m) == {i \in heard + 1..m : said[i] \in {Say, Blank}}
LastText(m) == CHOOSE i \in Texts(m) : \A j \in Texts(m) : j <= i

Hear == /\ open /\ answer = Upgrade
        /\ \E m \in heard + 1..Len(said) :
             /\ \A i \in heard + 1..m : said[i] # Bye
             /\ heard' = m
             /\ acted' = IF Texts(m) # {} /\ said[LastText(m)] = Say
                           THEN Append(acted, LastText(m)) ELSE acted
        /\ UNCHANGED <<request, answer, open, said>>

HangUp == /\ open
          /\ open' = FALSE
          /\ UNCHANGED <<request, answer, said, heard, acted>>

Next == Ask \/ Answer \/ Speak \/ Hear \/ HangUp

Spec == Init /\ [][Next]_convVars

=============================================================================
