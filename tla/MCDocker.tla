------------------------------ MODULE MCDocker -------------------------------
(* A job, a service that waits for it, and a container that is no job. *)
EXTENDS Docker

CONSTANTS job, setup, service

\* The service is started when setup has succeeded.
Depends == {<<service, setup>>}
=============================================================================
