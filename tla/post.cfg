SPECIFICATION Spec
CONSTANTS
  Machines = {1, 2, 3}
  Far <- MCFar
  MaxLost = 2
INVARIANTS MailOnce AckMeansReceived PermitPerPacket
