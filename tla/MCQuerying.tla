------------------------------ MODULE MCQuerying ------------------------------
EXTENDS Querying

SomeQueries == {q \in [lang : {"EdgeQL", "SQL"}, args : BOOLEAN, state : BOOLEAN] : q.args = q.state}
Hosts == [http : {FALSE}, tls : {TRUE}, timeout : {TRUE}, wait : {TRUE}]
UnixSocket == [http : {FALSE}, tls : {FALSE}, timeout : {FALSE}, wait : {FALSE}]
Http == [http : {TRUE}, tls : {TRUE}, timeout : {FALSE}, wait : {FALSE}]
AllConfigs == Hosts \cup UnixSocket \cup Http
=============================================================================
