CONSTANT NServers = 4
SPECIFICATION TurnsSpec
PROPERTY TurnsAreFair
