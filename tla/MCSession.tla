------------------------------- MODULE MCSession -------------------------------
EXTENDS Session, TLC
CONSTANTS a1, a2, b, A, A1, A2, B, m1, m2
\* a1 and a2 share the account A, b has one key
MCAccount == a1 :> A @@ a2 :> A @@ b :> B
MCHost == a1 :> A1 @@ a2 :> A2 @@ b :> B
Contact(d, did, p, mutual) == [from |-> d, did |-> did, to |-> p, mutual |-> mutual]
\* a sibling; a host key for the DID; another account; the wrong DID
MCContacts ==
  {Contact(a1, A, a2, TRUE), Contact(a2, A1, a1, FALSE), Contact(a1, B, b, FALSE),
   Contact(b, A, a1, TRUE), Contact(b, B, a2, TRUE)}
MCTo == m1 :> A @@ m2 :> B
=============================================================================
