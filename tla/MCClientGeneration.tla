-------------------------- MODULE MCClientGeneration --------------------------
(* ClientGeneration on small instances: the client's patience is the least
   that covers the server's. *)
EXTENDS ClientGeneration

ASSUME PatientClient == PollingOutlastsServer
===============================================================================
