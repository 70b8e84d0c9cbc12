\* Four puts: enough for every block to be written again after a full turn of
\* back -> middle -> front and for a redelivery to be followed by a put.
SPECIFICATION Spec
CONSTANT MaxPuts = 4
INVARIANTS NoDataRace NewestDelivered
PROPERTY ImplementsMailbox
