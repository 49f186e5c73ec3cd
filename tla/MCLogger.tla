------------------------------ MODULE MCLogger ------------------------------
EXTENDS Logger

\* Three slots let the queue wrap around; five pushes let the destructor
\* start with the queue full, partly full or empty.
MCCapacity == 3

MCMaxPush == 5

=============================================================================
