----------------------------- MODULE MCAllInOne -----------------------------
(***************************************************************************)
(* AllInOne with a customer and a servicer, who makes two requests.        *)
(***************************************************************************)
EXTENDS AllInOne

CONSTANTS a1, b1, c1, s1, u1

MCActOf == [c \in Customers |-> a1]
MCBizOf == [c \in Customers |-> b1]
MCUserOf == [s \in Servicers |-> u1]
MCSees == [s \in Servicers |-> {}]
MCRequests == [c \in Customers |-> 1]
MCAsks == [s \in Servicers |-> 2]

\* The servicer comes when there is a talk and the customer's stream is installed; he
\* makes a second request when he serves it and the customer has made his; the
\* customer's client takes what it is sent at once.
MCServedFirst ==
  /\ service[s1] # "idle" => DOMAIN talks # {} /\ chInstallCustomer = <<>>
  /\ serviceRequests[s1] = 2 => /\ \E t \in DOMAIN talks : talks[t].service = u1
                                /\ chServicerAttachTalk = <<>>
                                /\ requests[c1] = 1
  /\ Len(chSendMessage[c1]) <= 1
=============================================================================
