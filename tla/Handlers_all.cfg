\* Two concurrent refunds of one request; each handler; a pool of one thread; a
\* reviewer with every script of up to two answers.
SPECIFICATION FairSpec
CONSTANTS
    c1 = c1
    c2 = c2
    q1 = q1
    Calls <- MCCalls
    Requests <- MCRequests
    request <- MCrequest
    Workers = 1
    Scripts <- MCScripts
INVARIANTS OwnReviewDecides AlertAccounted
PROPERTIES HandlersEnd
CHECK_DEADLOCK FALSE
