SPECIFICATION StartupSpec
CONSTANTS
    IntegerOf <- MCIntegerOf
    PercentOf <- MCPercentOf
    CommandLines <- MCCommandLines
    Worlds <- MCWorlds
INVARIANT WindowIsOfWorld
PROPERTY RestartRestores
