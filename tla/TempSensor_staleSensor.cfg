SPECIFICATION SensorSpec
CONSTANTS
    Temps = {15, 45}
    Deadband = 0
PROPERTIES
    ValueRecovers
