\* A page connects while Bob asks for a payment and a wallet syncs.
CONSTANTS
    asking = asking  viewing = viewing
    bobTask = bobTask  aliceTask = aliceTask  watching = watching
    Tasks = {asking, viewing, bobTask, aliceTask, watching}
    JobOf <- OneOfEach
SPECIFICATION Spec
INVARIANTS PageNeverWaitsOnSync
