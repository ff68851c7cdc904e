----------------------------- MODULE MCService -----------------------------
\* ServiceProcess with constants for TLC.  The runs check liveness, so they
\* declare no symmetry; but requests are interchangeable, and what holds of
\* one request of every behaviour holds of each.
EXTENDS ServiceProcess

CONSTANT Client
ASSUME ClientAssumption == Client \in Reqs

\* OthersServed: the client is served.
ClientServed == Served(Client)

\* LivenessOnceWarm: the client's liveness probe is answered.
ClientAnsweredOnceWarm == AnsweredOnceWarm(Client)
============================================================================
