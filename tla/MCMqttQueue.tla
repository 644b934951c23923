----------------------------- MODULE MCMqttQueue -----------------------------
(* Values for the constants of MqttQueue. *)
EXTENDS MqttQueue

CONSTANTS backend, worker, t1, t2, a, b

BackendAndWorker == {backend, worker}

BothTopics == {t1, t2}

BothPayloads == {a, b}
===============================================================================
