----------------------------- MODULE MCDrivers -----------------------------
(***************************************************************************)
(* The drivers behind the Vfs trait, each in behaviours of its own (part   *)
(* says which): the FTP pool of connections, the shared SFTP channel, the  *)
(* commands run over SSH, SFTP spoken to a command by several threads, and *)
(* the S3 operations of many requests, and a built-in terminal, which has  *)
(* an SSH connection of its own.                                           *)
(***************************************************************************)
EXTENDS FtpPool, SftpSession, SftpCommands, S3Objects, ExecSftp, Terminals

CONSTANTS r1, r2, o1, o2, c1, c2, c3, k1, k2, t1, t2, t3, d1, w1

VARIABLE part
s3Vars     == <<uploadVars, moveVars>>
driverVars == <<ftpVars, sftpVars, commandVars, s3Vars, execVars, termVars>>
MCTeams == {{d1, t1}, {w1, t1}, {t1, t2, t3}}
MCInit ==
    /\ part \in {"ftp", "sftp", "commands", "s3", "exec", "terminal"}
    /\ FtpInit /\ SftpInit /\ CommandsInit /\ S3Init /\ ExecInit /\ TerminalsInit
    /\ part # "sftp" => slow /\ compat
    /\ part # "commands" => account = "shell" /\ shell
    /\ part # "exec" => \A t \in FileReader \cup FileWriter : doing[t].at = "away"
    /\ part # "s3" => \A k \in Key : source[k] = 1
MCNext ==
    /\ UNCHANGED part
    /\ \/ part = "ftp" /\ FtpNext /\ UNCHANGED <<sftpVars, commandVars, s3Vars, execVars, termVars>>
       \/ part = "sftp" /\ SftpNext /\ UNCHANGED <<ftpVars, commandVars, s3Vars, execVars, termVars>>
       \/ part = "commands" /\ CommandsNext /\ UNCHANGED <<ftpVars, sftpVars, s3Vars, execVars, termVars>>
       \/ part = "s3" /\ S3Next /\ UNCHANGED <<ftpVars, sftpVars, commandVars, execVars, termVars>>
       \/ part = "exec" /\ ExecNext /\ UNCHANGED <<ftpVars, sftpVars, commandVars, s3Vars, termVars>>
       \/ part = "terminal" /\ TerminalsNext /\ UNCHANGED <<ftpVars, sftpVars, commandVars, s3Vars, execVars>>
MCSpec == MCInit /\ [][MCNext]_<<part, driverVars>>
=============================================================================
