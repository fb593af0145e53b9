SPECIFICATION ServersSpec
INVARIANTS
    LighttpdIsSound
    IisIsSound
\* A configuration is read once.
CHECK_DEADLOCK FALSE
